---- MODULE Spec2Model ----
(***************************************************************************)
(* A model of parts of second-opinion:                                     *)
(*   - the provider registry of main.go (getOrCreateProvider and           *)
(*     getOrCreateOptimizedProvider over two maps and one RWMutex),        *)
(*   - the retry layer of llm/retry.go (RetryableHTTPRequest and           *)
(*     RetryableOperation),                                                *)
(*   - the bounded diff processor of memory_utils.go (SafeDiffProcessor).  *)
(*   - functions without state, each applied to one input,                 *)
(*   - the chunked analysis of the optimized provider (analyzeInChunks).   *)
(* Each part has its own specification (SpecRegistry, SpecRetry,           *)
(* SpecDiff, SpecFn, SpecAnalysis); Spec starts in any one of them.        *)
(***************************************************************************)
EXTENDS Integers, Sequences, FiniteSets, TLC

VARIABLES
    \* ---- provider registry (main.go) ----
    llmProviders,           \* map cacheKey -> provider instance
    optimizedLLMProviders,  \* map cacheKey -> optimized wrapper
    llmProvidersMux,        \* the RWMutex: [readers, writer], writer 0 when free
    pc,                     \* per caller: position in the code
    call,                   \* per caller: [fn, providerName, modelOverride]
    provider,               \* per caller: local `provider` / `baseProvider`
    calls,                  \* per caller: number of calls started
    nextInstance,           \* allocator of fresh provider instances
    constructed,            \* history: cacheKey -> successful NewProvider calls
    returned,               \* history: set of [key, fn, instance] handed back
    failed,                 \* history: set of cache keys whose call returned an error
    attempted,              \* history: cacheKey -> llm.NewProvider calls made
    errored,                \* history: cacheKey -> calls that returned an error
    \* ---- retry layer (llm/retry.go) ----
    fn,                     \* "RetryableHTTPRequest" or "RetryableOperation"
    config,                 \* RetryConfig
    reqBody,                \* req.Body, the caller's reader: [isNil, data, pos, fails]
    bodyBytes,              \* the snapshot: [isNil, bytes]
    attempt,                \* loop variable
    lastErr,
    rpc,                    \* position: "start", "attempt", "wait", "done"
    ctxErr,                 \* ctx.Err(): NoErr until the context is done
    timerFired,             \* the channel of time.After(delay) is ready
    result,                 \* what the call returned: [resp, err]
    sent,                   \* history: per attempt, the body sent and the outcome
    closes,                 \* history: per attempt, the resp.Body.Close() calls made
    bodyReads,              \* history: number of io.ReadAll(req.Body)
    waits,                  \* history: number of delays started
    \* ---- bounded diff processor (memory_utils.go) ----
    memConfig,              \* config.MemoryConfig
    processor,              \* the SafeDiffProcessor: [buffer, lineBuffer, bytesRead,
                            \*   linesRead, filesRead, isTruncated, truncateMsg]
    dpc,                    \* "start", "feeding", "done" (GetResult returned),
                            \*   "refused" (the pre-flight result returned),
                            \*   "failed" (getGitDiffSafe returned an error),
                            \*   "panic", "statsPanic" (nil *DiffStats read)
    checkErr,               \* getGitDiffSafe: the error checkDiffSize returned
    diff,                   \* the TruncatedDiff returned
    fed,                    \* history: the chunks passed to ProcessChunk, in order
    \* ---- functions without state, applied to one input ----
    fnInput,                \* the function called and its arguments
    fnOutput,               \* what it returned
    fnPc,                   \* "idle", "called", "returned"
    \* ---- chunked analysis (optimizedProviderWrapper.analyzeInChunks) ----
    chunks,                 \* the pieces splitContentIntoChunks returned
    results,                \* the per-piece results collected so far
    dispatched,             \* history: the prompts passed to w.Analyze, in order
    apc,                    \* "idle", "loop", "done"
    analyzeErr,             \* history: the error of the last w.Analyze call
    analysis                \* what analyzeInChunks returned: [text, err]

regVars == <<llmProviders, optimizedLLMProviders, llmProvidersMux, pc, call,
             provider, calls, nextInstance, constructed, returned, failed,
             attempted, errored>>

retryVars == <<fn, config, reqBody, bodyBytes, attempt, lastErr, rpc, ctxErr,
               timerFired, result, sent, closes, bodyReads, waits>>

diffVars == <<memConfig, processor, dpc, checkErr, diff, fed>>

fnVars == <<fnInput, fnOutput, fnPc>>

analysisVars == <<chunks, results, dispatched, apc, analyzeErr, analysis>>

vars == <<regVars, retryVars, diffVars, fnVars, analysisVars>>

None == "none"

(***************************************************************************)
(* Retry layer: values                                                     *)
(***************************************************************************)

\* Bounds of the retry model.
MaxRetriesBound == 3

\* error values: the kind, whether the value implements net.Error and, for a
\* *url.Error, the kind of the error it wraps.
NoErr == [kind |-> "nil", net |-> FALSE, wraps |-> ""]
Canceled == [kind |-> "context.Canceled", net |-> FALSE, wraps |-> ""]
DeadlineExceeded == [kind |-> "context.DeadlineExceeded", net |-> TRUE, wraps |-> ""]
DNSError == [kind |-> "net.DNSError", net |-> TRUE, wraps |-> ""]
PlainError == [kind |-> "errors.New", net |-> FALSE, wraps |-> ""]
\* http.Client.Do returns every failure as a *url.Error, which implements
\* net.Error, around the transport's or the context's error.
UrlError(inner) == [kind |-> "url.Error", net |-> TRUE, wraps |-> inner.kind]

\* fmt.Errorf("HTTP %d", resp.StatusCode)
HTTPError(statusCode) == [kind |-> "HTTP", net |-> FALSE, wraps |-> "", status |-> statusCode]
\* fmt.Errorf("request failed after %d attempts: %w", n, lastErr)
FailedAfter(n, cause) == [kind |-> "failed after", net |-> FALSE, attempts |-> n, cause |-> cause]
\* fmt.Errorf("failed to read request body: %w", err)
ReadBodyError == [kind |-> "failed to read request body", net |-> FALSE, wraps |-> "io"]

NoResp == 0
Statuses == {200, 400, 401, 403, 429, 500, 502, 503, 504}

\* IsRetryableError (retry.go)
IsRetryableError(err) ==
    IF err = NoErr THEN FALSE
    ELSE IF err = DeadlineExceeded \/ err = Canceled THEN FALSE
    ELSE IF err.net THEN TRUE
    ELSE FALSE

\* A variant that retries 429 and every status of 500 and above.
IsRetryableHTTPStatus_ServerErrors(statusCode) ==
    statusCode = 429 \/ statusCode >= 500

\* A variant that retries every status of 400 and above.
IsRetryableHTTPStatus_AllErrors(statusCode) == statusCode >= 400

\* IsRetryableHTTPStatus (retry.go)
IsRetryableHTTPStatus(statusCode) ==
    CASE statusCode = 429 -> TRUE
      [] statusCode = 500 -> TRUE
      [] statusCode = 502 -> TRUE
      [] statusCode = 503 -> TRUE
      [] statusCode = 504 -> TRUE
      [] OTHER -> FALSE

\* io.ReadAll(req.Body): what is left of the reader
ReadAll(body) == SubSeq(body.data, body.pos + 1, Len(body.data))
Drained(body) == [body EXCEPT !.pos = Len(body.data)]

\* reqCopy := req.Clone(ctx) shares req.Body; with a snapshot the body is
\* replaced by io.NopCloser(bytes.NewReader(bodyBytes)), a reader at offset 0.
NewReader(b) == [isNil |-> FALSE, data |-> b, pos |-> 0, fails |-> FALSE]

\* A variant that sends the clone as it is, with the reader the snapshot drained.
AttemptBody_SharedReader(req, snapshot) == req

AttemptBody(req, snapshot) ==
    IF ~snapshot.isNil THEN NewReader(snapshot.bytes) ELSE req

\* what the transport puts on the wire for a request with this body
Wire(body) == IF body.isNil THEN <<>> ELSE ReadAll(body)

NilBody == [isNil |-> TRUE, data |-> <<>>, pos |-> 0, fails |-> FALSE]
NilBytes == [isNil |-> TRUE, bytes |-> <<>>]

\* the request bodies of the model: none, empty, one byte, two bytes
Bodies == {<<>>, <<"a">>, <<"a", "b">>}

RetryIdle ==
    /\ fn = None
    /\ config = [MaxRetries |-> 0]
    /\ reqBody = NilBody
    /\ bodyBytes = NilBytes
    /\ attempt = 0
    /\ lastErr = NoErr
    /\ rpc = "idle"
    /\ ctxErr = NoErr
    /\ timerFired = FALSE
    /\ result = [resp |-> NoResp, err |-> NoErr]
    /\ sent = <<>>
    /\ closes = <<>>
    /\ bodyReads = 0
    /\ waits = 0

(***************************************************************************)
(* Bounded diff processor: values                                          *)
(***************************************************************************)

\* Bounds of the diff model: the bytes ProcessChunk may have accepted after a
\* call, the length of one chunk, the number of ProcessChunk calls, and the
\* bytes of one MB, scaled down from 1024*1024.
MaxStream == 5
MaxChunkLen == 3
MaxChunks == 3
BytesPerMB == 4
\* 1024, scaled down with the MB
BytesPerKB == BytesPerMB \div 2

\* The bytes of a diff: a newline, the file marker and any other byte.  The
\* marker "diff --git" is scaled to one byte.
NL == "\n"
Bytes == {NL, "d", "x"}
FileMarker == <<"d">>
Ellipsis == <<".", ".", ".">>

\* The memory settings explored (MAX_DIFF_SIZE_MB, MAX_FILE_COUNT and
\* MAX_LINE_LENGTH are taken from the environment as they are).
MemoryConfigs ==
    [MaxDiffSizeMB : {1, 2}, MaxFileCount : {1, 2}, MaxLineLength : {2, 3, 4}]

NoMsg == [text |-> "", n |-> 0]
\* fmt.Sprintf("Diff truncated at %dMB limit", p.memConfig.MaxDiffSizeMB)
SizeMsg(n) == [text |-> "Diff truncated at %dMB limit", n |-> n]
\* fmt.Sprintf("Truncated at %d files limit", p.memConfig.MaxFileCount)
FilesMsg(n) == [text |-> "Truncated at %d files limit", n |-> n]

\* strings.HasPrefix
HasPrefix(str, prefix) ==
    /\ Len(str) >= Len(prefix)
    /\ SubSeq(str, 1, Len(prefix)) = prefix

\* truncateLine: line[:maxLength-3] panics when maxLength-3 is negative.
TruncateLinePanics(line, maxLength) ==
    Len(line) > maxLength /\ maxLength - 3 < 0

\* A variant that cuts at maxLength and then appends the ellipsis.
truncateLine_CutAtMax(line, maxLength) ==
    IF Len(line) <= maxLength
    THEN line
    ELSE SubSeq(line, 1, maxLength) \o Ellipsis

truncateLine(line, maxLength) ==
    IF Len(line) <= maxLength
    THEN line
    ELSE SubSeq(line, 1, maxLength - 3) \o Ellipsis

\* int64(p.memConfig.MaxDiffSizeMB * 1024 * 1024)
MaxBytes(cfg) == cfg.MaxDiffSizeMB * BytesPerMB

\* NewSafeDiffProcessor
NewSafeDiffProcessor ==
    [buffer |-> <<>>, lineBuffer |-> <<>>, bytesRead |-> 0, linesRead |-> 0,
     filesRead |-> 0, isTruncated |-> FALSE, truncateMsg |-> NoMsg,
     panicked |-> FALSE]

\* ProcessChunk, the loop "for _, b := range chunk" from byte i on.
RECURSIVE ScanChunk(_, _, _, _)
ScanChunk(p, cfg, chunk, i) ==
    IF i > Len(chunk) THEN p
    ELSE IF chunk[i] = NL
    THEN LET line == p.lineBuffer
             isFile == HasPrefix(line, FileMarker)
             files == IF isFile THEN p.filesRead + 1 ELSE p.filesRead
         IN IF isFile /\ files > cfg.MaxFileCount
            THEN [p EXCEPT !.filesRead = files,
                           !.isTruncated = TRUE,
                           !.truncateMsg = FilesMsg(cfg.MaxFileCount)]
            ELSE IF TruncateLinePanics(line, cfg.MaxLineLength)
            THEN [p EXCEPT !.filesRead = files, !.panicked = TRUE]
            ELSE ScanChunk(
                   [p EXCEPT !.filesRead = files,
                             !.buffer = @ \o truncateLine(line, cfg.MaxLineLength) \o <<NL>>,
                             !.linesRead = @ + 1,
                             !.lineBuffer = <<>>],
                   cfg, chunk, i + 1)
    ELSE ScanChunk([p EXCEPT !.lineBuffer = Append(@, chunk[i])], cfg, chunk, i + 1)

\* A variant that still takes the part of the chunk that fits under the ceiling.
ProcessChunkOf_FillToCeiling(p, cfg, chunk) ==
    IF p.isTruncated THEN p
    ELSE IF p.bytesRead + Len(chunk) > MaxBytes(cfg)
    THEN LET fits == SubSeq(chunk, 1, MaxBytes(cfg) - p.bytesRead)
             q == ScanChunk([p EXCEPT !.bytesRead = @ + Len(fits)], cfg, fits, 1)
         IN IF q.isTruncated THEN q
            ELSE [q EXCEPT !.isTruncated = TRUE,
                           !.truncateMsg = SizeMsg(cfg.MaxDiffSizeMB)]
    ELSE ScanChunk([p EXCEPT !.bytesRead = @ + Len(chunk)], cfg, chunk, 1)

\* A variant whose size ceiling trips when it is reached.
ProcessChunkOf_InclusiveCeiling(p, cfg, chunk) ==
    IF p.isTruncated THEN p
    ELSE IF p.bytesRead + Len(chunk) >= MaxBytes(cfg)
    THEN [p EXCEPT !.isTruncated = TRUE,
                   !.truncateMsg = SizeMsg(cfg.MaxDiffSizeMB)]
    ELSE ScanChunk([p EXCEPT !.bytesRead = @ + Len(chunk)], cfg, chunk, 1)

\* A variant that scans the chunk for file headers before it checks the size.
ProcessChunkOf_FilesCheckedFirst(p, cfg, chunk) ==
    IF p.isTruncated THEN p
    ELSE LET q == ScanChunk([p EXCEPT !.bytesRead = @ + Len(chunk)], cfg, chunk, 1)
         IN IF q.isTruncated \/ q.panicked THEN q
            ELSE IF p.bytesRead + Len(chunk) > MaxBytes(cfg)
            THEN [p EXCEPT !.isTruncated = TRUE,
                           !.truncateMsg = SizeMsg(cfg.MaxDiffSizeMB)]
            ELSE q

\* A variant that goes on counting the bytes it ignores once truncated.
ProcessChunkOf_CountsIgnoredBytes(p, cfg, chunk) ==
    IF p.isTruncated THEN [p EXCEPT !.bytesRead = @ + Len(chunk)]
    ELSE IF p.bytesRead + Len(chunk) > MaxBytes(cfg)
    THEN [p EXCEPT !.isTruncated = TRUE,
                   !.truncateMsg = SizeMsg(cfg.MaxDiffSizeMB)]
    ELSE ScanChunk([p EXCEPT !.bytesRead = @ + Len(chunk)], cfg, chunk, 1)

\* A variant that scans each chunk by itself: the unfinished line of the
\* chunk before is forgotten when the next chunk arrives.
ProcessChunkOf_LinePerChunk(p, cfg, chunk) ==
    IF p.isTruncated THEN p
    ELSE IF p.bytesRead + Len(chunk) > MaxBytes(cfg)
    THEN [p EXCEPT !.isTruncated = TRUE,
                   !.truncateMsg = SizeMsg(cfg.MaxDiffSizeMB)]
    ELSE ScanChunk([p EXCEPT !.bytesRead = @ + Len(chunk), !.lineBuffer = <<>>],
                   cfg, chunk, 1)

\* ProcessChunk
ProcessChunkOf(p, cfg, chunk) ==
    IF p.isTruncated THEN p
    ELSE IF p.bytesRead + Len(chunk) > MaxBytes(cfg)
    THEN [p EXCEPT !.isTruncated = TRUE,
                   !.truncateMsg = SizeMsg(cfg.MaxDiffSizeMB)]
    ELSE ScanChunk([p EXCEPT !.bytesRead = @ + Len(chunk)], cfg, chunk, 1)

\* A variant that forgets the line still in the line buffer.
FlushLine_Dropped(p, cfg) == p

\* GetResult, "Handle any remaining line"
FlushLine(p, cfg) ==
    IF Len(p.lineBuffer) > 0
    THEN IF TruncateLinePanics(p.lineBuffer, cfg.MaxLineLength)
         THEN [p EXCEPT !.panicked = TRUE]
         ELSE [p EXCEPT !.buffer =
                   @ \o truncateLine(p.lineBuffer, cfg.MaxLineLength) \o <<NL>>]
    ELSE p

\* GetResult, the TruncatedDiff it builds
TruncatedDiff(p) ==
    [Content |-> p.buffer,
     IsTruncated |-> p.isTruncated,
     TotalSizeKB |-> p.bytesRead \div BytesPerKB,
     FileCount |-> p.filesRead,
     TruncatedAt |-> p.truncateMsg,
     WarningReason |-> p.truncateMsg]

NoDiff ==
    [Content |-> <<>>, IsTruncated |-> FALSE, TotalSizeKB |-> 0, FileCount |-> 0,
     TruncatedAt |-> NoMsg, WarningReason |-> NoMsg]

\* int64(memConfig.MaxDiffSizeMB * 1024), in the scaled units
KBPerMB == BytesPerMB \div BytesPerKB
MaxSizeKB(cfg) == cfg.MaxDiffSizeMB * KBPerMB

\* What getDiffStats returns: an error, or the counts of "git diff --numstat".
\* The counts explored lie at and around the two limits of checkDiffSize.
StatsError == [failed |-> TRUE, FileCount |-> 0, EstimatedSizeKB |-> 0]
StatsOutcomes(cfg) ==
    {StatsError} \cup
    [failed : {FALSE},
     FileCount : {0, cfg.MaxFileCount, cfg.MaxFileCount + 1},
     EstimatedSizeKB : {0, MaxSizeKB(cfg), MaxSizeKB(cfg) + 1}]

\* fmt.Errorf("failed to get diff stats: %w", err)
StatsFailedMsg == [text |-> "failed to get diff stats: %w", n |-> 0]
\* fmt.Errorf("diff too large: estimated %dKB exceeds limit of %dKB", ...)
TooLargeMsg(kb) ==
    [text |-> "diff too large: estimated %dKB exceeds limit of %dKB", n |-> kb]
\* fmt.Errorf("too many files changed: %d exceeds limit of %d", ...)
TooManyFilesMsg(n) ==
    [text |-> "too many files changed: %d exceeds limit of %d", n |-> n]

\* checkDiffSize: the error it returns, NoMsg for nil
checkDiffSize(stats, cfg) ==
    IF stats.failed THEN StatsFailedMsg
    ELSE IF stats.EstimatedSizeKB > MaxSizeKB(cfg)
    THEN TooLargeMsg(stats.EstimatedSizeKB)
    ELSE IF stats.FileCount > cfg.MaxFileCount
    THEN TooManyFilesMsg(stats.FileCount)
    ELSE NoMsg

\* getGitDiffSafe, the result it builds when checkDiffSize returned err
PreflightDiff(stats, err) ==
    [Content |-> <<>>,
     IsTruncated |-> TRUE,
     TotalSizeKB |-> stats.EstimatedSizeKB,
     FileCount |-> stats.FileCount,
     TruncatedAt |-> NoMsg,
     WarningReason |-> err]

\* streamCommand passes only the reads that returned bytes (n > 0).
AllChunks == UNION {[1..n -> Bytes] : n \in 1..MaxChunkLen}
\* Without streaming the whole output is the one chunk, and it may be empty.
WholeOutputs == AllChunks \cup {<<>>}
\* ProcessChunk returns at its first statement once the flag is set, so one
\* chunk, a whole header line, stands for the ones passed after that.
LateChunks == {<<"d", NL>>}

DiffIdle ==
    /\ memConfig = [MaxDiffSizeMB |-> 1, MaxFileCount |-> 1, MaxLineLength |-> 3]
    /\ processor = NewSafeDiffProcessor
    /\ dpc = "idle"
    /\ checkErr = NoMsg
    /\ diff = NoDiff
    /\ fed = <<>>

(***************************************************************************)
(* Functions without state                                                 *)
(***************************************************************************)
NoInput == [f |-> "none"]

FnIdle ==
    /\ fnInput = NoInput
    /\ fnOutput = 0
    /\ fnPc = "idle"

\* Bounds: the largest time.Duration (math.MaxInt64 nanoseconds, scaled
\* down) and the largest attempt number passed to CalculateDelay.
MaxDuration == 127
MaxAttempt == 6

MinDuration == -MaxDuration - 1

\* time.Now().UnixNano() % 1000: the source's modulus and the values explored
JitterModulus == 1000
JitterSamples == {0, 250, 500, 750, JitterModulus - 1}

\* The RetryConfigs explored for CalculateDelay, all with MaxDelay >= BaseDelay.
DelayConfigs ==
    {rc \in [BaseDelay : {1, 5}, MaxDelay : {5, 40}, BackoffMultiple : {1, 2, 3}] :
        rc.MaxDelay >= rc.BaseDelay}

RECURSIVE Pow(_, _)
Pow(b, e) == IF e = 0 THEN 1 ELSE b * Pow(b, e - 1)

\* float64(rc.BaseDelay) * math.Pow(rc.BackoffMultiple, float64(attempt)),
\* plus the jitter 0.25 * delay * (2*nano/1000 - 1), as an exact fraction
\* over 4 * JitterModulus; the float is not bounded by MaxDuration.
JitteredDelayNum(rc, att, nano) ==
    rc.BaseDelay * Pow(rc.BackoffMultiple, att) * (3 * JitterModulus + 2 * nano)

\* time.Duration(delay): the fraction is cut off; a float that no int64
\* holds converts to a value the Go specification leaves to the
\* implementation (amd64 yields the smallest int64, arm64 the largest).
ToDuration(num, den) ==
    IF num \div den > MaxDuration
    THEN {MinDuration, MaxDuration}
    ELSE {num \div den}

\* A variant that never clamps.
ClampToMax_Never(d, max) == d

\* if delayDuration > rc.MaxDelay { delayDuration = rc.MaxDelay }
ClampToMax(d, max) == IF d > max THEN max ELSE d

\* RetryConfig.CalculateDelay: the values it can return
CalculateDelay(rc, att, nano) ==
    IF att = 0
    THEN {rc.BaseDelay}
    ELSE {ClampToMax(d, rc.MaxDelay) :
            d \in ToDuration(JitteredDelayNum(rc, att, nano), 4 * JitterModulus)}

DelayInputs ==
    [f : {"CalculateDelay"}, rc : DelayConfigs, attempt : 0..MaxAttempt,
     nano : JitterSamples]

\* Bounds: the length of the content passed to splitContentIntoChunks and the
\* largest chunk size.
MaxContentLen == 6
MaxChunkSize == 5

\* strings.LastIndex(chunk, "\n"): the index from 0, -1 when there is none
LastIndex(chunk) ==
    IF \E k \in 1..Len(chunk) : chunk[k] = NL
    THEN (CHOOSE k \in 1..Len(chunk) :
             chunk[k] = NL /\ \A m \in (k + 1)..Len(chunk) : chunk[m] # NL) - 1
    ELSE -1

\* A variant that leaves the loop index where it was.
AdjustedIndex_NoAdjust(i, lastNewline, chunkSizeBytes) == i

\* i = i + lastNewline + 1 - chunkSizeBytes
AdjustedIndex(i, lastNewline, chunkSizeBytes) ==
    i + lastNewline + 1 - chunkSizeBytes

\* A variant that breaks at the last newline of the window wherever it lies.
RECURSIVE SplitLoop_AnyNewline(_, _, _)
SplitLoop_AnyNewline(content, chunkSizeBytes, i) ==
    IF ~(i < Len(content)) THEN <<>>
    ELSE LET end == IF i + chunkSizeBytes > Len(content)
                    THEN Len(content) ELSE i + chunkSizeBytes
             chunk == SubSeq(content, i + 1, end)
             lastNewline == LastIndex(chunk)
             atLine == end < Len(content) /\ lastNewline >= 0
             piece == IF atLine
                      THEN SubSeq(content, i + 1, i + lastNewline + 1)
                      ELSE chunk
             j == IF atLine
                  THEN AdjustedIndex(i, lastNewline, chunkSizeBytes)
                  ELSE i
         IN <<piece>> \o SplitLoop_AnyNewline(content, chunkSizeBytes,
                                              j + chunkSizeBytes)

\* splitContentIntoChunks, the loop from index i (counted from 0) on
RECURSIVE SplitLoop(_, _, _)
SplitLoop(content, chunkSizeBytes, i) ==
    IF ~(i < Len(content)) THEN <<>>
    ELSE LET end == IF i + chunkSizeBytes > Len(content)
                    THEN Len(content) ELSE i + chunkSizeBytes
             chunk == SubSeq(content, i + 1, end)
             lastNewline == LastIndex(chunk)
             atLine == end < Len(content) /\ lastNewline > Len(chunk) \div 2
             piece == IF atLine
                      THEN SubSeq(content, i + 1, i + lastNewline + 1)
                      ELSE chunk
             j == IF atLine
                  THEN AdjustedIndex(i, lastNewline, chunkSizeBytes)
                  ELSE i
         IN <<piece>> \o SplitLoop(content, chunkSizeBytes, j + chunkSizeBytes)

\* splitContentIntoChunks
splitContentIntoChunks(content, chunkSizeBytes) ==
    IF Len(content) <= chunkSizeBytes
    THEN <<content>>
    ELSE SplitLoop(content, chunkSizeBytes, 0)

\* the contents explored: lines of "x" of every shape up to MaxContentLen
Contents == UNION {[1..n -> {NL, "x"}] : n \in 0..MaxContentLen}

SplitInputs ==
    [f : {"splitContentIntoChunks"}, content : Contents,
     chunkSizeBytes : 1..MaxChunkSize]

(***************************************************************************)
(* Chunked analysis                                                        *)
(***************************************************************************)
\* A variant that numbers the parts from 0.
ChunkPrompt_FromZero(i, n, chunk) ==
    [kind |-> "Analysis part %d of %d", part |-> i - 1, of |-> n, body |-> <<chunk>>]

\* fmt.Sprintf("Analysis part %d of %d:\n\n%s", i+1, len(chunks), chunk)
ChunkPrompt(i, n, chunk) ==
    [kind |-> "Analysis part %d of %d", part |-> i, of |-> n, body |-> <<chunk>>]

\* fmt.Sprintf("## Part %d Analysis\n%s", i+1, result)
PartResult(i, res) == [part |-> i, result |-> res]

\* the summary prompt around combinedResult = strings.Join(results, "\n\n")
SummaryPrompt(combinedResult) ==
    [kind |-> "Provide a comprehensive summary", part |-> 0, of |-> 0,
     body |-> combinedResult]

\* What the provider answers to a prompt when it answers.
Response(prompt) == [to |-> prompt]

\* The errors w.Analyze returns: a failure of the provider, or the caller's
\* cancellation.
AnalyzeErrors == {PlainError, Canceled}

NoSummary == [to |-> "none"]

\* the text analyzeInChunks returns: combinedResult, then the summary if any
Combined(res, summary) == [parts |-> res, summary |-> summary]
EmptyText == Combined(<<>>, NoSummary)

\* fmt.Errorf("chunk %d analysis failed: %w", i+1, err)
ChunkFailed(i, err) ==
    [kind |-> "chunk %d analysis failed", net |-> FALSE, wraps |-> err.kind,
     chunk |-> i]

NoAnalysis == [text |-> EmptyText, err |-> NoErr]

\* A variant that hands back the results collected before the failure.
ChunkFailureReturn_Partial(res, i, err) ==
    [text |-> Combined(res, NoSummary), err |-> ChunkFailed(i, err)]

\* return "", fmt.Errorf("chunk %d analysis failed: %w", i+1, err)
ChunkFailureReturn(res, i, err) ==
    [text |-> EmptyText, err |-> ChunkFailed(i, err)]

\* A variant that fails the operation when the summary fails.
SummaryFailureReturn_Error(res, err) == [text |-> EmptyText, err |-> err]

\* "If summary fails, return the combined results": return combinedResult, nil
SummaryFailureReturn(res, err) ==
    [text |-> Combined(res, NoSummary), err |-> NoErr]

AnalysisIdle ==
    /\ chunks = <<>>
    /\ results = <<>>
    /\ dispatched = <<>>
    /\ apc = "idle"
    /\ analyzeErr = NoErr
    /\ analysis = NoAnalysis

(***************************************************************************)
(* Provider registry                                                       *)
(***************************************************************************)

\* Bounds of the registry model: the concurrent callers, and the calls they
\* make between them.
NumCallers == 2
MaxCalls == 2

Callers == 1..NumCallers

\* the calls started by the callers 1..n
RECURSIVE CallsStarted(_, _)
CallsStarted(started, n) ==
    IF n = 0 THEN 0 ELSE started[n] + CallsStarted(started, n - 1)

\* cfg.DefaultProvider, and the providers NewProvider can build with the
\* configuration at hand (mistral stands for a provider without an API key);
\* the (providerName, modelOverride) pairs the handlers pass.
DefaultProvider == "openai"
Requests == {<<"", "">>, <<"", "m">>, <<"ollama", "">>, <<"mistral", "">>}
Buildable == {"openai", "ollama"}

\* main.go:170-178: the default for an empty name, then the cache key
\* fmt.Sprintf("%s:%s", providerName, modelOverride).
ResolveName(providerName) ==
    IF providerName = "" THEN DefaultProvider ELSE providerName

CacheKey(providerName, modelOverride) ==
    IF modelOverride # ""
    THEN <<ResolveName(providerName), ":", modelOverride>>
    ELSE <<ResolveName(providerName)>>

KeyOf(c) == CacheKey(call[c].providerName, call[c].modelOverride)

\* llm.NewProvider: the switch over config.Provider, and the constructors'
\* API key checks; TRUE when a provider is returned.
NewProviderOk(providerName) == ResolveName(providerName) \in Buildable

\* llm.NewOptimizedProvider: the wrapper embeds the base provider.
NewOptimizedProvider(baseProvider) == [Provider |-> baseProvider]

Put(m, k, v) == [x \in DOMAIN m \cup {k} |-> IF x = k THEN v ELSE m[x]]

\* one more for key k of a counter kept per key
Bump(m, k) == Put(m, k, IF k \in DOMAIN m THEN m[k] + 1 ELSE 1)

\* A variant that caches the nil provider of a failed construction.
FailureStore_CachesNil(m, k) == Put(m, k, 0)

\* What a failed construction leaves in llmProviders: the error return of
\* main.go:207-209 (and of 242-244) comes before any store.
FailureStore(m, k) == m

\* sync.RWMutex
CanRLock == llmProvidersMux.writer = 0
CanLock == llmProvidersMux.writer = 0 /\ llmProvidersMux.readers = {}
RLock(c) == [llmProvidersMux EXCEPT !.readers = @ \cup {c}]
RUnlock(c) == [llmProvidersMux EXCEPT !.readers = @ \ {c}]
Lock(c) == [llmProvidersMux EXCEPT !.writer = c]
Unlock(c) == [llmProvidersMux EXCEPT !.writer = 0]

\* main(): the default provider is built and cached before the server starts.
RegStart ==
    /\ llmProviders = [k \in {<<DefaultProvider>>} |-> 1]
    /\ optimizedLLMProviders = [k \in {<<DefaultProvider>>} |-> NewOptimizedProvider(1)]
    /\ llmProvidersMux = [readers |-> {}, writer |-> 0]
    /\ pc = [c \in Callers |-> "idle"]
    /\ call = [c \in Callers |-> [fn |-> None, providerName |-> "", modelOverride |-> ""]]
    /\ provider = [c \in Callers |-> 0]
    /\ calls = [c \in Callers |-> 0]
    /\ nextInstance = 2
    /\ constructed = [k \in {} |-> 0]
    /\ returned = {}
    /\ failed = {}
    /\ attempted = [k \in {} |-> 0]
    /\ errored = [k \in {} |-> 0]

RegInit == RegStart /\ RetryIdle /\ DiffIdle /\ FnIdle /\ AnalysisIdle

\* The registry's operations leave the other parts alone.
RegFrame == UNCHANGED <<retryVars, diffVars, fnVars, analysisVars>>

\* A handler calls one of the two functions.
Call(c) ==
    /\ RegFrame
    /\ pc[c] = "idle"
    /\ CallsStarted(calls, NumCallers) < MaxCalls
    /\ \E f \in {"getOrCreateProvider", "getOrCreateOptimizedProvider"},
          r \in Requests :
         /\ call' = [call EXCEPT ![c] =
                [fn |-> f, providerName |-> r[1], modelOverride |-> r[2]]]
         /\ pc' = [pc EXCEPT ![c] =
                IF f = "getOrCreateProvider" THEN "gp_rlock" ELSE "op_rlock"]
    /\ calls' = [calls EXCEPT ![c] = @ + 1]
    /\ provider' = [provider EXCEPT ![c] = 0]
    /\ UNCHANGED <<llmProviders, optimizedLLMProviders, llmProvidersMux,
                   nextInstance, constructed, returned, failed,
                   attempted, errored>>

\* getOrCreateProvider returns p to its caller: to the handler, or to
\* getOrCreateOptimizedProvider at main.go:241.
GpReturn(c, p) ==
    IF call[c].fn = "getOrCreateProvider"
    THEN /\ pc' = [pc EXCEPT ![c] = "idle"]
         /\ returned' = returned \cup
                {[key |-> KeyOf(c), fn |-> call[c].fn, instance |-> p]}
         /\ provider' = provider
    ELSE /\ pc' = [pc EXCEPT ![c] = "op_lock"]
         /\ provider' = [provider EXCEPT ![c] = p]
         /\ returned' = returned

\* main.go:181
GpRLock(c) ==
    /\ RegFrame
    /\ pc[c] = "gp_rlock"
    /\ CanRLock
    /\ llmProvidersMux' = RLock(c)
    /\ pc' = [pc EXCEPT ![c] = "gp_check"]
    /\ UNCHANGED <<llmProviders, optimizedLLMProviders, call, provider, calls,
                   nextInstance, constructed, returned, failed,
                   attempted, errored>>

\* main.go:182-186
GpCheck(c) ==
    /\ RegFrame
    /\ pc[c] = "gp_check"
    /\ llmProvidersMux' = RUnlock(c)
    /\ IF KeyOf(c) \in DOMAIN llmProviders
       THEN GpReturn(c, llmProviders[KeyOf(c)])
       ELSE /\ pc' = [pc EXCEPT ![c] = "gp_new"]
            /\ UNCHANGED <<provider, returned>>
    /\ UNCHANGED <<llmProviders, optimizedLLMProviders, call, calls,
                   nextInstance, constructed, failed,
                   attempted, errored>>

\* main.go:189-209
GpNewProvider(c) ==
    /\ RegFrame
    /\ pc[c] = "gp_new"
    /\ attempted' = Bump(attempted, KeyOf(c))
    /\ IF NewProviderOk(call[c].providerName)
       THEN /\ provider' = [provider EXCEPT ![c] = nextInstance]
            /\ nextInstance' = nextInstance + 1
            /\ constructed' = Put(constructed, KeyOf(c),
                   IF KeyOf(c) \in DOMAIN constructed
                   THEN constructed[KeyOf(c)] + 1 ELSE 1)
            /\ pc' = [pc EXCEPT ![c] = "gp_lock"]
            /\ UNCHANGED <<failed, errored, llmProviders, optimizedLLMProviders>>
       ELSE /\ failed' = failed \cup {KeyOf(c)}
            /\ errored' = Bump(errored, KeyOf(c))
            /\ llmProviders' = FailureStore(llmProviders, KeyOf(c))
            /\ optimizedLLMProviders' = optimizedLLMProviders
            /\ pc' = [pc EXCEPT ![c] = "idle"]
            /\ UNCHANGED <<provider, nextInstance, constructed>>
    /\ UNCHANGED <<llmProvidersMux, call, calls, returned>>

\* A variant of getOrCreateProvider that stores without taking the write lock.
GpLock_Skipped(c) ==
    /\ RegFrame
    /\ pc[c] = "gp_lock"
    /\ pc' = [pc EXCEPT ![c] = "gp_store"]
    /\ UNCHANGED <<llmProviders, optimizedLLMProviders, llmProvidersMux, call,
                   provider, calls, nextInstance, constructed, returned, failed,
                   attempted, errored>>

\* main.go:212
GpLock(c) ==
    /\ RegFrame
    /\ pc[c] = "gp_lock"
    /\ CanLock
    /\ llmProvidersMux' = Lock(c)
    /\ pc' = [pc EXCEPT ![c] = "gp_store"]
    /\ UNCHANGED <<llmProviders, optimizedLLMProviders, call, provider, calls,
                   nextInstance, constructed, returned, failed,
                   attempted, errored>>

\* A variant of getOrCreateProvider that caches the base provider alone.
GpStore_BaseOnly(c) ==
    /\ RegFrame
    /\ pc[c] = "gp_store"
    /\ llmProviders' = Put(llmProviders, KeyOf(c), provider[c])
    /\ optimizedLLMProviders' = optimizedLLMProviders
    /\ llmProvidersMux' = Unlock(c)
    /\ GpReturn(c, provider[c])
    /\ UNCHANGED <<call, calls, nextInstance, constructed, failed,
                   attempted, errored>>

\* main.go:213-216
GpStore(c) ==
    /\ RegFrame
    /\ pc[c] = "gp_store"
    /\ llmProviders' = Put(llmProviders, KeyOf(c), provider[c])
    /\ optimizedLLMProviders' =
           Put(optimizedLLMProviders, KeyOf(c), NewOptimizedProvider(provider[c]))
    /\ llmProvidersMux' = Unlock(c)
    /\ GpReturn(c, provider[c])
    /\ UNCHANGED <<call, calls, nextInstance, constructed, failed,
                   attempted, errored>>

\* main.go:233
OpRLock(c) ==
    /\ RegFrame
    /\ pc[c] = "op_rlock"
    /\ CanRLock
    /\ llmProvidersMux' = RLock(c)
    /\ pc' = [pc EXCEPT ![c] = "op_check"]
    /\ UNCHANGED <<llmProviders, optimizedLLMProviders, call, provider, calls,
                   nextInstance, constructed, returned, failed,
                   attempted, errored>>

\* A variant of getOrCreateOptimizedProvider that still holds its read lock
\* when it calls getOrCreateProvider.
OpCheck_KeepsReadLock(c) ==
    /\ RegFrame
    /\ pc[c] = "op_check"
    /\ IF KeyOf(c) \in DOMAIN optimizedLLMProviders
       THEN /\ llmProvidersMux' = RUnlock(c)
            /\ pc' = [pc EXCEPT ![c] = "idle"]
            /\ returned' = returned \cup
                   {[key |-> KeyOf(c), fn |-> call[c].fn,
                     instance |-> optimizedLLMProviders[KeyOf(c)].Provider]}
       ELSE /\ llmProvidersMux' = llmProvidersMux
            /\ pc' = [pc EXCEPT ![c] = "gp_rlock"]
            /\ returned' = returned
    /\ UNCHANGED <<llmProviders, optimizedLLMProviders, call, provider, calls,
                   nextInstance, constructed, failed,
                   attempted, errored>>

\* main.go:234-241
OpCheck(c) ==
    /\ RegFrame
    /\ pc[c] = "op_check"
    /\ llmProvidersMux' = RUnlock(c)
    /\ IF KeyOf(c) \in DOMAIN optimizedLLMProviders
       THEN /\ pc' = [pc EXCEPT ![c] = "idle"]
            /\ returned' = returned \cup
                   {[key |-> KeyOf(c), fn |-> call[c].fn,
                     instance |-> optimizedLLMProviders[KeyOf(c)].Provider]}
       ELSE /\ pc' = [pc EXCEPT ![c] = "gp_rlock"]
            /\ returned' = returned
    /\ UNCHANGED <<llmProviders, optimizedLLMProviders, call, provider, calls,
                   nextInstance, constructed, failed,
                   attempted, errored>>

\* main.go:247
OpLock(c) ==
    /\ RegFrame
    /\ pc[c] = "op_lock"
    /\ CanLock
    /\ llmProvidersMux' = Lock(c)
    /\ pc' = [pc EXCEPT ![c] = "op_store"]
    /\ UNCHANGED <<llmProviders, optimizedLLMProviders, call, provider, calls,
                   nextInstance, constructed, returned, failed,
                   attempted, errored>>

\* main.go:248-259, the deferred Unlock included
OpStore(c) ==
    /\ RegFrame
    /\ pc[c] = "op_store"
    /\ llmProvidersMux' = Unlock(c)
    /\ pc' = [pc EXCEPT ![c] = "idle"]
    /\ IF KeyOf(c) \in DOMAIN optimizedLLMProviders
       THEN /\ returned' = returned \cup
                   {[key |-> KeyOf(c), fn |-> call[c].fn,
                     instance |-> optimizedLLMProviders[KeyOf(c)].Provider]}
            /\ optimizedLLMProviders' = optimizedLLMProviders
       ELSE /\ optimizedLLMProviders' =
                   Put(optimizedLLMProviders, KeyOf(c), NewOptimizedProvider(provider[c]))
            /\ returned' = returned \cup
                   {[key |-> KeyOf(c), fn |-> call[c].fn, instance |-> provider[c]]}
    /\ UNCHANGED <<llmProviders, call, provider, calls, nextInstance,
                   constructed, failed,
                   attempted, errored>>

RegNext ==
    \E c \in Callers :
        \/ Call(c)
        \/ GpRLock(c)
        \/ GpCheck(c)
        \/ GpNewProvider(c)
        \/ GpLock(c)
        \/ GpStore(c)
        \/ OpRLock(c)
        \/ OpCheck(c)
        \/ OpLock(c)
        \/ OpStore(c)

SpecRegistry == RegInit /\ [][RegNext]_vars

\* The registry under fair scheduling.  While some goroutine can take its
\* next step, and stays able to, a step is taken: the Go scheduler runs the
\* runnable goroutines, llm.NewProvider terminates, and sync.RWMutex wakes a
\* goroutine waiting in RLock or Lock once the lock is free.  This asks less
\* than fairness to each goroutine.  Whether a handler calls at all is left
\* open.
RegFairness ==
    WF_vars(\E c \in Callers :
                \/ GpRLock(c) \/ GpCheck(c) \/ GpNewProvider(c)
                \/ GpLock(c) \/ GpStore(c)
                \/ OpRLock(c) \/ OpCheck(c) \/ OpLock(c) \/ OpStore(c))

SpecRegistryFair == RegInit /\ [][RegNext]_vars /\ RegFairness

\* C1: for every cache key, NewProvider builds a provider at most once, and
\* all the handles handed back for that key -- by getOrCreateProvider and by
\* getOrCreateOptimizedProvider -- reference the same provider instance.
C1_ConstructedOnce ==
    /\ \A k \in DOMAIN constructed : constructed[k] <= 1
    /\ \A r1, r2 \in returned : r1.key = r2.key => r1.instance = r2.instance

(***************************************************************************)
(* Retry layer: RetryableHTTPRequest and RetryableOperation                *)
(***************************************************************************)

RetryFrame == UNCHANGED <<regVars, diffVars, fnVars, analysisVars>>

RetryInit ==
    /\ RegStart
    /\ fn \in {"RetryableHTTPRequest", "RetryableOperation"}
    /\ config \in [MaxRetries : 0..MaxRetriesBound]
    /\ reqBody \in
         IF fn = "RetryableHTTPRequest"
         THEN {NilBody} \cup
              {[isNil |-> FALSE, data |-> b, pos |-> 0, fails |-> f] :
                  b \in Bodies, f \in BOOLEAN}
         ELSE {NilBody}
    /\ bodyBytes = NilBytes
    /\ attempt = 0
    /\ lastErr = NoErr
    /\ rpc = IF fn = "RetryableHTTPRequest" THEN "start" ELSE "attempt"
    /\ ctxErr = NoErr
    /\ timerFired = FALSE
    /\ result = [resp |-> NoResp, err |-> NoErr]
    /\ sent = <<>>
    /\ closes = <<>>
    /\ bodyReads = 0
    /\ waits = 0
    /\ DiffIdle
    /\ FnIdle
    /\ AnalysisIdle

\* The caller cancels the context, or its deadline passes.
CtxDone ==
    /\ RetryFrame
    /\ rpc \in {"start", "attempt", "wait"}
    /\ ctxErr = NoErr
    /\ ctxErr' \in {Canceled, DeadlineExceeded}
    /\ UNCHANGED <<fn, config, reqBody, bodyBytes, attempt, lastErr, rpc,
                   timerFired, result, sent, closes, bodyReads, waits>>

\* retry.go, RetryableHTTPRequest: "Read the request body once if it exists"
ReadBody ==
    /\ RetryFrame
    /\ rpc = "start"
    /\ fn = "RetryableHTTPRequest"
    /\ IF reqBody.isNil
       THEN /\ rpc' = "attempt"
            /\ UNCHANGED <<reqBody, bodyBytes, bodyReads, result>>
       ELSE /\ bodyReads' = bodyReads + 1
            /\ IF reqBody.fails
               THEN /\ result' = [resp |-> NoResp, err |-> ReadBodyError]
                    /\ rpc' = "done"
                    /\ UNCHANGED <<reqBody, bodyBytes>>
               ELSE /\ bodyBytes' = [isNil |-> FALSE, bytes |-> ReadAll(reqBody)]
                    /\ reqBody' = Drained(reqBody)
                    /\ rpc' = "attempt"
                    /\ result' = result
    /\ UNCHANGED <<fn, config, attempt, lastErr, ctxErr, timerFired, sent,
                   closes, waits>>

\* client.Do(reqCopy): a response with some status, or a *url.Error; the
\* request of a context that is done fails with the context's error.  When
\* the client's CheckRedirect fails, Do returns the redirect response (302
\* here) together with the *url.Error.
DoOutcomes(ctx) ==
    IF ctx # NoErr
    THEN {[resp |-> NoResp, err |-> UrlError(ctx)]}
    ELSE {[resp |-> st, err |-> NoErr] : st \in Statuses}
         \cup {[resp |-> NoResp, err |-> UrlError(DNSError)]}
         \cup {[resp |-> 302, err |-> UrlError(PlainError)]}

\* retry.go, the loop body of RetryableHTTPRequest after client.Do: what the
\* attempt decides, as [ret, resp, err, lastErr]; ret FALSE means wait and retry.
ShouldRetry(resp, err) ==
    IF err # NoErr THEN IsRetryableError(err)
    ELSE IF resp # NoResp THEN IsRetryableHTTPStatus(resp)
    ELSE FALSE

NextLastErr(resp, err, last) ==
    IF err # NoErr THEN err
    ELSE IF resp # NoResp THEN HTTPError(resp)
    ELSE last

\* A variant that reports the loop index instead of the number of attempts.
ExhaustedError_LoopIndex(n, cause) == FailedAfter(n - 1, cause)

\* return nil, fmt.Errorf("request failed after %d attempts: %w", attempt+1, lastErr)
ExhaustedError(n, cause) == FailedAfter(n, cause)

\* A variant that turns a response the dispatcher does not retry into an error.
AfterDo_StatusAsError(resp, err, last, att, maxRetries) ==
    IF err = NoErr /\ resp = 200
    THEN [ret |-> TRUE, resp |-> resp, err |-> NoErr, lastErr |-> last]
    ELSE LET le == NextLastErr(resp, err, last) IN
         IF ~ShouldRetry(resp, err)
         THEN [ret |-> TRUE, resp |-> NoResp, err |-> le, lastErr |-> le]
         ELSE IF att = maxRetries
              THEN [ret |-> TRUE, resp |-> NoResp,
                    err |-> ExhaustedError(att + 1, le), lastErr |-> le]
              ELSE [ret |-> FALSE, resp |-> NoResp, err |-> NoErr, lastErr |-> le]

\* A variant that hands the last response back together with the error when
\* the attempts are used up.
AfterDo_ResponseWithError(resp, err, last, att, maxRetries) ==
    IF err = NoErr /\ ~IsRetryableHTTPStatus(resp)
    THEN [ret |-> TRUE, resp |-> resp, err |-> NoErr, lastErr |-> last]
    ELSE LET le == NextLastErr(resp, err, last) IN
         IF ~ShouldRetry(resp, err)
         THEN IF resp # NoResp /\ err = NoErr
              THEN [ret |-> TRUE, resp |-> resp, err |-> NoErr, lastErr |-> le]
              ELSE [ret |-> TRUE, resp |-> NoResp, err |-> le, lastErr |-> le]
         ELSE IF att = maxRetries
              THEN [ret |-> TRUE, resp |-> resp,
                    err |-> ExhaustedError(att + 1, le), lastErr |-> le]
              ELSE [ret |-> FALSE, resp |-> NoResp, err |-> NoErr, lastErr |-> le]

AfterDo(resp, err, last, att, maxRetries) ==
    IF err = NoErr /\ ~IsRetryableHTTPStatus(resp)
    THEN [ret |-> TRUE, resp |-> resp, err |-> NoErr, lastErr |-> last]
    ELSE LET le == NextLastErr(resp, err, last) IN
         IF ~ShouldRetry(resp, err)
         THEN IF resp # NoResp /\ err = NoErr
              THEN [ret |-> TRUE, resp |-> resp, err |-> NoErr, lastErr |-> le]
              ELSE [ret |-> TRUE, resp |-> NoResp, err |-> le, lastErr |-> le]
         ELSE IF att = maxRetries
              THEN [ret |-> TRUE, resp |-> NoResp,
                    err |-> ExhaustedError(att + 1, le), lastErr |-> le]
              ELSE [ret |-> FALSE, resp |-> NoResp, err |-> NoErr, lastErr |-> le]

\* A variant that closes the body of every response it got without an
\* error, the one it returns included.
BodyCloses_AlsoWhenReturned(resp, err) ==
    IF err = NoErr /\ resp # NoResp THEN 1 ELSE 0

\* retry.go, the loop body of RetryableHTTPRequest: the resp.Body.Close()
\* calls it makes for the outcome of client.Do.  The successful return comes
\* before the close, and the close is in the branch taken without an error.
BodyCloses(resp, err) ==
    IF err = NoErr /\ ~IsRetryableHTTPStatus(resp) THEN 0
    ELSE IF err # NoErr THEN 0
    ELSE IF resp # NoResp THEN 1
    ELSE 0

\* One pass of the loop of RetryableHTTPRequest up to the select.
Attempt ==
    /\ RetryFrame
    /\ rpc = "attempt"
    /\ fn = "RetryableHTTPRequest"
    /\ \E c \in {ctxErr} \cup (IF ctxErr = NoErr THEN {Canceled, DeadlineExceeded} ELSE {}) :
       \E out \in DoOutcomes(c) :
         LET body == AttemptBody(reqBody, bodyBytes)
             d == AfterDo(out.resp, out.err, lastErr, attempt, config.MaxRetries)
         IN /\ ctxErr' = c
            /\ sent' = Append(sent, [hasBody |-> ~body.isNil, body |-> Wire(body),
                                     resp |-> out.resp, err |-> out.err])
            /\ closes' = Append(closes, BodyCloses(out.resp, out.err))
            /\ lastErr' = d.lastErr
            /\ IF d.ret
               THEN /\ result' = [resp |-> d.resp, err |-> d.err]
                    /\ rpc' = "done"
                    /\ UNCHANGED <<timerFired, waits>>
               ELSE /\ rpc' = "wait"
                    /\ timerFired' = FALSE
                    /\ waits' = waits + 1
                    /\ result' = result
    /\ UNCHANGED <<fn, config, reqBody, bodyBytes, attempt, bodyReads>>

\* operation(): a result, or one of these errors
OperationOutcomes ==
    {[resp |-> 1, err |-> NoErr]}
    \cup {[resp |-> NoResp, err |-> e] :
            e \in {DNSError, PlainError, Canceled, DeadlineExceeded}}

\* fmt.Errorf("operation failed after %d attempts: %w", config.MaxRetries+1, lastErr)
OperationFailedAfter(n, cause) ==
    [kind |-> "operation failed after", net |-> FALSE, attempts |-> n, cause |-> cause]

\* A variant that retries after every error.
AfterOperation_RetriesEveryError(value, err, last, att, maxRetries) ==
    IF err = NoErr
    THEN [ret |-> TRUE, resp |-> value, err |-> NoErr, lastErr |-> last]
    ELSE IF att = maxRetries
    THEN [ret |-> TRUE, resp |-> NoResp,
          err |-> OperationFailedAfter(maxRetries + 1, err), lastErr |-> err]
    ELSE [ret |-> FALSE, resp |-> NoResp, err |-> NoErr, lastErr |-> err]

\* retry.go, the loop body of RetryableOperation after operation()
AfterOperation(value, err, last, att, maxRetries) ==
    IF err = NoErr
    THEN [ret |-> TRUE, resp |-> value, err |-> NoErr, lastErr |-> last]
    ELSE IF ~IsRetryableError(err)
    THEN [ret |-> TRUE, resp |-> NoResp, err |-> err, lastErr |-> last]
    ELSE IF att = maxRetries
    THEN [ret |-> TRUE, resp |-> NoResp,
          err |-> OperationFailedAfter(maxRetries + 1, err), lastErr |-> err]
    ELSE [ret |-> FALSE, resp |-> NoResp, err |-> NoErr, lastErr |-> err]

\* One pass of the loop of RetryableOperation up to the select.
OperationAttempt ==
    /\ RetryFrame
    /\ rpc = "attempt"
    /\ fn = "RetryableOperation"
    /\ \E out \in OperationOutcomes :
         LET d == AfterOperation(out.resp, out.err, lastErr, attempt, config.MaxRetries)
         IN /\ sent' = Append(sent, [hasBody |-> FALSE, body |-> <<>>,
                                     resp |-> out.resp, err |-> out.err])
            /\ lastErr' = d.lastErr
            /\ IF d.ret
               THEN /\ result' = [resp |-> d.resp, err |-> d.err]
                    /\ rpc' = "done"
                    /\ UNCHANGED <<timerFired, waits>>
               ELSE /\ rpc' = "wait"
                    /\ timerFired' = FALSE
                    /\ waits' = waits + 1
                    /\ result' = result
    /\ UNCHANGED <<fn, config, reqBody, bodyBytes, attempt, ctxErr, closes,
                   bodyReads>>

\* The delay of time.After(delay) elapses.
TimerFires ==
    /\ RetryFrame
    /\ rpc = "wait"
    /\ ~timerFired
    /\ timerFired' = TRUE
    /\ UNCHANGED <<fn, config, reqBody, bodyBytes, attempt, lastErr, rpc, ctxErr,
                   result, sent, closes, bodyReads, waits>>

\* A variant that reports a cancelled wait as exhausted retries.
CancelResult_Exhausted(ctx, last, att) ==
    [resp |-> NoResp, err |-> FailedAfter(att + 1, last)]

\* what the select returns on <-ctx.Done()
CancelResult(ctx, last, att) == [resp |-> NoResp, err |-> ctx]

\* select: case <-ctx.Done(): return nil, ctx.Err()
SelectCtxDone ==
    /\ RetryFrame
    /\ rpc = "wait"
    /\ ctxErr # NoErr
    /\ result' = CancelResult(ctxErr, lastErr, attempt)
    /\ rpc' = "done"
    /\ UNCHANGED <<fn, config, reqBody, bodyBytes, attempt, lastErr, ctxErr,
                   timerFired, sent, closes, bodyReads, waits>>

\* select: case <-time.After(delay), then attempt++ and the loop condition
SelectTimer ==
    /\ RetryFrame
    /\ rpc = "wait"
    /\ timerFired
    /\ attempt' = attempt + 1
    /\ IF attempt + 1 <= config.MaxRetries
       THEN /\ rpc' = "attempt"
            /\ result' = result
       ELSE /\ rpc' = "done"
            /\ result' = [resp |-> NoResp,
                          err |-> IF fn = "RetryableHTTPRequest"
                                  THEN FailedAfter(config.MaxRetries + 1, lastErr)
                                  ELSE OperationFailedAfter(config.MaxRetries + 1, lastErr)]
    /\ UNCHANGED <<fn, config, reqBody, bodyBytes, lastErr, ctxErr, timerFired,
                   sent, closes, bodyReads, waits>>

RetryNext ==
    \/ CtxDone
    \/ ReadBody
    \/ Attempt
    \/ OperationAttempt
    \/ TimerFires
    \/ SelectCtxDone
    \/ SelectTimer

SpecRetry == RetryInit /\ [][RetryNext]_vars

\* The statuses the dispatcher is specified to retry.
RetryableStatuses == {429, 500, 502, 503, 504}

RetryableStatusAnswer(o) == o.err = NoErr /\ o.resp \in RetryableStatuses
FinalStatusAnswer(o) == o.err = NoErr /\ o.resp \in Statuses \ RetryableStatuses
RetryableFailure(o) == RetryableStatusAnswer(o) \/ o.err = UrlError(DNSError)
FailureOf(o) == IF o.err # NoErr THEN o.err ELSE HTTPError(o.resp)

\* C2: when the upstream answers k requests of RetryableHTTPRequest with a
\* retryable status and request k+1 with a status that is not retryable, the
\* call has returned that response with a nil error and request k+1 is the
\* last one, with k <= MaxRetries.
C2_SuccessAfterRetries ==
    fn = "RetryableHTTPRequest" =>
        \A i \in 1..Len(sent) :
            ( /\ \A j \in 1..(i - 1) : RetryableStatusAnswer(sent[j])
              /\ FinalStatusAnswer(sent[i]) )
            => /\ i = Len(sent)
               /\ i <= config.MaxRetries + 1
               /\ rpc = "done"
               /\ result = [resp |-> sent[i].resp, err |-> NoErr]

C2_Witness ==
    /\ fn = "RetryableHTTPRequest"
    /\ rpc = "done"
    /\ Len(sent) = 3
    /\ sent[1].resp = 429 /\ sent[2].resp = 429 /\ sent[3].resp = 200
    /\ result = [resp |-> 200, err |-> NoErr]

\* C3: when the upstream answers the first request with a status that is not
\* retryable, RetryableHTTPRequest has made one request and no delay and has
\* returned that response with a nil error, for every MaxRetries.
C3_NoRetryOnTerminalStatus ==
    ( /\ fn = "RetryableHTTPRequest"
      /\ Len(sent) >= 1
      /\ sent[1].err = NoErr
      /\ sent[1].resp \in {400, 401, 403} )
    => /\ Len(sent) = 1
       /\ waits = 0
       /\ rpc = "done"
       /\ result = [resp |-> sent[1].resp, err |-> NoErr]

C3_Witness ==
    /\ fn = "RetryableHTTPRequest"
    /\ config.MaxRetries = MaxRetriesBound
    /\ rpc = "done"
    /\ Len(sent) = 1
    /\ sent[1].resp = 400
    /\ result = [resp |-> 400, err |-> NoErr]

\* C4: while RetryableHTTPRequest or RetryableOperation waits between two
\* attempts with the context done and the delay not yet elapsed, returning
\* is possible at once, and the step that leaves the wait returns the
\* context's error itself and makes no further attempt.
C4_CancelDuringDelay ==
    /\ [](rpc = "wait" /\ ctxErr # NoErr => ENABLED SelectCtxDone)
    /\ [][ (rpc = "wait" /\ ctxErr # NoErr /\ ~timerFired /\ rpc' # "wait")
           => /\ rpc' = "done"
              /\ result' = [resp |-> NoResp, err |-> ctxErr]
              /\ result'.err \in {Canceled, DeadlineExceeded}
              /\ sent' = sent ]_vars

C4_Witness ==
    /\ rpc = "done"
    /\ waits >= 1
    /\ ~timerFired
    /\ Len(sent) <= config.MaxRetries
    /\ ctxErr = Canceled
    /\ result = [resp |-> NoResp, err |-> Canceled]

\* C5: when every request of RetryableHTTPRequest fails in a retryable way and
\* the context is never done, the call has made MaxRetries+1 requests and
\* returned no response and an error that wraps the last failure and carries
\* the attempt count MaxRetries+1.
C5_ExhaustedAfterMaxRetries ==
    ( /\ fn = "RetryableHTTPRequest"
      /\ rpc = "done"
      /\ ctxErr = NoErr
      /\ Len(sent) >= 1
      /\ \A i \in 1..Len(sent) : RetryableFailure(sent[i]) )
    => /\ Len(sent) = config.MaxRetries + 1
       /\ result = [resp |-> NoResp,
                    err |-> FailedAfter(config.MaxRetries + 1,
                                        FailureOf(sent[Len(sent)]))]

C5_Witness ==
    /\ fn = "RetryableHTTPRequest"
    /\ rpc = "done"
    /\ ctxErr = NoErr
    /\ config.MaxRetries = 2
    /\ Len(sent) = 3
    /\ \A i \in 1..3 : sent[i].resp = 500
    /\ result.err = FailedAfter(3, HTTPError(500))

\* C6: RetryableHTTPRequest reads the caller's body once, before the first
\* request, and every request carries the whole body the caller supplied.
C6_BodyReplayed ==
    fn = "RetryableHTTPRequest" =>
        /\ bodyReads <= 1
        /\ (Len(sent) >= 1 /\ ~reqBody.isNil) => bodyReads = 1
        /\ \A i \in 1..Len(sent) :
              /\ sent[i].hasBody = ~reqBody.isNil
              /\ sent[i].body = reqBody.data

C6_Witness ==
    /\ fn = "RetryableHTTPRequest"
    /\ Len(sent) = 3
    /\ reqBody.data = <<"a", "b">>
    /\ sent[3].body = <<"a", "b">>
    /\ bodyReads = 1

(***************************************************************************)
(* Bounded diff processor: SafeDiffProcessor                               *)
(***************************************************************************)

DiffFrame == UNCHANGED <<regVars, retryVars, fnVars, analysisVars>>

DiffInit ==
    /\ RegStart
    /\ RetryIdle
    /\ memConfig \in MemoryConfigs
    /\ processor = NewSafeDiffProcessor
    /\ dpc = "start"
    /\ checkErr = NoMsg
    /\ diff = NoDiff
    /\ fed = <<>>
    /\ FnIdle
    /\ AnalysisIdle

\* getGitDiffSafe up to NewSafeDiffProcessor: checkDiffSize reads the stats;
\* when it returns an error the stats are read a second time "for the
\* warning", their error dropped, and the pre-flight result is returned.
\* Reading a field of the nil *DiffStats of a failed second call panics.
CheckDiffSize ==
    /\ DiffFrame
    /\ dpc = "start"
    /\ \E first \in StatsOutcomes(memConfig) :
         LET err == checkDiffSize(first, memConfig)
         IN /\ checkErr' = err
            /\ IF err = NoMsg
               THEN dpc' = "feeding" /\ diff' = diff
               ELSE \E stats \in StatsOutcomes(memConfig) :
                       IF stats.failed
                       THEN dpc' = "statsPanic" /\ diff' = diff
                       ELSE dpc' = "refused" /\ diff' = PreflightDiff(stats, err)
    /\ UNCHANGED <<memConfig, processor, fed>>

\* streamCommand (or getGitDiffSafe without streaming) passes the next chunk.
ProcessChunk ==
    /\ DiffFrame
    /\ dpc = "feeding"
    /\ Len(fed) < MaxChunks
    /\ \E chunk \in (IF processor.isTruncated THEN LateChunks
                    ELSE IF fed = <<>> THEN WholeOutputs ELSE AllChunks) :
         /\ processor.isTruncated \/ processor.bytesRead + Len(chunk) <= MaxStream
         /\ LET q == ProcessChunkOf(processor, memConfig, chunk)
            IN /\ processor' = q
               /\ dpc' = IF q.panicked THEN "panic" ELSE "feeding"
         /\ fed' = Append(fed, chunk)
    /\ UNCHANGED <<memConfig, checkErr, diff>>

\* The git diff command fails (cmd.Output, or streamCommand at any read) and
\* the processor is not truncated: return nil, "git diff failed: %w".  With
\* the processor truncated the error is dropped and GetResult follows.
GitDiffFails ==
    /\ DiffFrame
    /\ dpc = "feeding"
    /\ ~processor.isTruncated
    /\ dpc' = "failed"
    /\ UNCHANGED <<memConfig, processor, checkErr, diff, fed>>

\* processor.GetResult()
GetResult ==
    /\ DiffFrame
    /\ dpc = "feeding"
    /\ LET q == FlushLine(processor, memConfig)
       IN /\ processor' = q
          /\ IF q.panicked
             THEN dpc' = "panic" /\ diff' = diff
             ELSE dpc' = "done" /\ diff' = TruncatedDiff(q)
    /\ UNCHANGED <<memConfig, checkErr, fed>>

DiffNext ==
    \/ CheckDiffSize
    \/ ProcessChunk
    \/ GitDiffFails
    \/ GetResult

SpecDiff == DiffInit /\ [][DiffNext]_vars

(***************************************************************************)
(* Content optimizer: token budget, provider caps and the chunk decision.  *)
(* Sizes are in bytes, as the callers pass them.                           *)
(***************************************************************************)

\* cfg.GetOptimalTokensForDiff(diffSize): the token budget of a content size,
\* "<5KB" the smallest and ">500KB" the largest
GetOptimalTokensForDiff(diffSize) ==
    IF diffSize < 5 * 1024 THEN 4096
    ELSE IF diffSize < 20 * 1024 THEN 6144
    ELSE IF diffSize < 50 * 1024 THEN 8192
    ELSE IF diffSize < 150 * 1024 THEN 12288
    ELSE IF diffSize <= 500 * 1024 THEN 16384
    ELSE 32768

\* the providers whose budget is capped, and the names Name() returns
CappedProviders == {"google", "ollama"}
ProviderNames == {"openai", "google", "mistral", "ollama"}

\* A variant that gives every provider the full budget of the size.
GetProviderOptimizedConfig_Uncapped(providerName, diffSize) ==
    [maxTokens |-> GetOptimalTokensForDiff(diffSize)]

\* cfg.GetProviderOptimizedConfig(provider, diffSize, task): the budget of the
\* size, capped for some providers.  The temperature and the sampling knobs
\* it also returns are not modelled.
GetProviderOptimizedConfig(providerName, diffSize) ==
    LET tokens == GetOptimalTokensForDiff(diffSize) IN
    [maxTokens |-> IF providerName \in CappedProviders /\ tokens > 8192
                   THEN 8192 ELSE tokens]

\* the file count above which chunks are halved
HighFileCount == 100

\* A variant that also chunks content exactly at a ceiling.
ShouldChunkDiff_AtCeiling(cfg, diffSizeBytes, fileCount) ==
    LET maxSizeBytes == cfg.MaxDiffSizeMB * 1024 * 1024
        chunkSizeBytes == cfg.ChunkSizeMB * 1024 * 1024
    IN [shouldChunk |-> diffSizeBytes >= maxSizeBytes \/ fileCount >= cfg.MaxFileCount,
        chunkSize |-> IF fileCount > HighFileCount
                      THEN chunkSizeBytes \div 2 ELSE chunkSizeBytes]

\* cfg.ShouldChunkDiff(diffSizeBytes, fileCount)
ShouldChunkDiff(cfg, diffSizeBytes, fileCount) ==
    LET maxSizeBytes == cfg.MaxDiffSizeMB * 1024 * 1024
        chunkSizeBytes == cfg.ChunkSizeMB * 1024 * 1024
    IN [shouldChunk |-> diffSizeBytes > maxSizeBytes \/ fileCount > cfg.MaxFileCount,
        chunkSize |-> IF fileCount > HighFileCount
                      THEN chunkSizeBytes \div 2 ELSE chunkSizeBytes]

\* estimateFileCount(content), of a content with diffGit occurrences of
\* "diff --git" and plus occurrences of "+++"
estimateFileCount(content) ==
    IF content.diffGit # 0 THEN content.diffGit
    ELSE IF content.plus # 0 THEN content.plus
    ELSE 1

\* A variant that always takes the chunked path.
AnalyzeOptimized_AlwaysChunks(providerName, content, contentSize, cfg) ==
    LET oc == GetProviderOptimizedConfig(providerName, contentSize)
        d == ShouldChunkDiff(cfg, contentSize, estimateFileCount(content))
    IN [call |-> "analyzeInChunks", prompt |-> content,
        chunkSize |-> d.chunkSize, maxTokens |-> oc.maxTokens]

\* w.AnalyzeOptimized(ctx, prompt, contentSize, task) up to the call it ends
\* in: analyzeInChunks, or analyzeWithOptimization, which makes one Analyze
\* request with the whole prompt.
AnalyzeOptimized(providerName, content, contentSize, cfg) ==
    LET oc == GetProviderOptimizedConfig(providerName, contentSize)
        d == ShouldChunkDiff(cfg, contentSize, estimateFileCount(content))
    IN IF d.shouldChunk
       THEN [call |-> "analyzeInChunks", prompt |-> content,
             chunkSize |-> d.chunkSize, maxTokens |-> oc.maxTokens]
       ELSE [call |-> "analyzeWithOptimization", prompt |-> content,
             chunkSize |-> 0, maxTokens |-> oc.maxTokens]

\* the content sizes of the model: each bracket's edge, one byte to either
\* side of it, and the megabytes around the size ceilings
BracketEdges == {5 * 1024, 20 * 1024, 50 * 1024, 150 * 1024, 500 * 1024}
MB(n) == n * 1024 * 1024
ContentSizes ==
    {0, 1024, 30 * 1024, 100 * 1024, 200 * 1024}
    \cup UNION {{e - 1, e, e + 1} : e \in BracketEdges}
    \cup {MB(1), MB(2), MB(5), MB(5) + 1, MB(10), MB(10) + 1, MB(15)}
FileCounts == {1, 10, 50, 100, 101, 150, 1000, 1001}
OptimizerConfigs ==
    [MaxDiffSizeMB : {5, 10}, MaxFileCount : {100, 1000}, ChunkSizeMB : {1, 2}]
DiffContents == [diffGit : {0, 50, 150, 1001}, plus : {0, 50, 1001}]

LadderInputs == [f : {"GetOptimalTokensForDiff"}, diffSize : ContentSizes]
TokenInputs ==
    [f : {"GetProviderOptimizedConfig"}, provider : ProviderNames,
     diffSize : ContentSizes]
ChunkInputs ==
    [f : {"ShouldChunkDiff"}, cfg : OptimizerConfigs,
     diffSizeBytes : ContentSizes, fileCount : FileCounts]
OptimizedInputs ==
    [f : {"AnalyzeOptimized"}, provider : ProviderNames, prompt : DiffContents,
     contentSize : {MB(1), MB(5) + 1, MB(10) + 1, MB(15)}, cfg : OptimizerConfigs]

(***************************************************************************)
(* Functions without state: one call of one function on one input          *)
(***************************************************************************)
FnFrame == UNCHANGED <<regVars, retryVars, diffVars, analysisVars>>

\* the status codes passed to IsRetryableHTTPStatus
StatusInputs == [f : {"IsRetryableHTTPStatus"}, statusCode : 100..599]

\* the errors passed to IsRetryableError: nil, the context's two errors, a
\* network error, another error, and the *url.Error that http.Client.Do
\* returns around a network error or around the context's error
ErrorInputs ==
    [f : {"IsRetryableError"},
     err : {NoErr, Canceled, DeadlineExceeded, DNSError, PlainError,
            UrlError(DNSError), UrlError(Canceled), UrlError(DeadlineExceeded)}]

(***************************************************************************)
(* The handlers' text assembly: getCommitInfo and getUncommittedChanges     *)
(* around getGitDiffSafe.  The text is the sequence of the parts written   *)
(* to the strings.Builder.                                                 *)
(***************************************************************************)
Part(p, v) == [part |-> p, val |-> v]

\* "\n⚠️ WARNING: %s\n" and "Total size: %dKB, Files: %d\n\n"
WarningParts(d) ==
    <<Part("warning", d.WarningReason),
      Part("counters", <<d.TotalSizeKB, d.FileCount>>)>>

NoText == [err |-> "", text |-> <<>>]
ErrorReturn(msg) == [err |-> msg, text |-> <<>>]

\* getCommitInfo.  showFails: "git show --stat" failed; first, second: what
\* the call of getGitDiffSafe for sha^..sha and the one for sha return.
getCommitInfo(showFails, first, second) ==
    IF showFails THEN ErrorReturn("failed to get commit info: %v")
    ELSE IF first.failed /\ second.failed
    THEN ErrorReturn("failed to get commit diff: %v")
    ELSE LET truncatedDiff == IF first.failed THEN second.diff ELSE first.diff
         IN [err |-> "",
             text |-> <<Part("output", "git show --stat"),
                        Part("label", IF first.failed THEN "Diff (first commit):\n"
                                      ELSE "Diff:\n")>>
                      \o (IF truncatedDiff.IsTruncated
                          THEN WarningParts(truncatedDiff) ELSE <<>>)
                      \o <<Part("content", truncatedDiff.Content)>>]

\* getUncommittedChanges.  status: what "git status --short" gave; first:
\* what getGitDiffSafe returns for "--cached" (stagedOnly) or "HEAD"; second:
\* what it returns for "--cached" when the HEAD diff had no content; stat:
\* the trailing "git diff --stat" printed something.
getUncommittedChanges(stagedOnly, status, first, second, stat) ==
    IF status = "failed" THEN ErrorReturn("failed to get git status: %v")
    ELSE IF status = "empty" THEN NoText
    ELSE IF first.failed THEN ErrorReturn("failed to get diff: %v")
    ELSE LET again == first.diff.Content = <<>> /\ ~stagedOnly
             truncatedDiff == IF again /\ ~second.failed
                              THEN second.diff ELSE first.diff
         IN [err |-> "",
             text |-> <<Part("label", IF stagedOnly THEN "Staged Changes Analysis"
                                      ELSE "Uncommitted Work Analysis"),
                        Part("output", "git status --short")>>
                      \o (IF again /\ second.failed
                          THEN <<Part("label", "Note: Failed to get staged changes")>>
                          ELSE <<>>)
                      \o (IF truncatedDiff.Content # <<>>
                          THEN (IF truncatedDiff.IsTruncated
                                THEN WarningParts(truncatedDiff) ELSE <<>>)
                               \o <<Part("label", "Diff:\n"),
                                    Part("content", truncatedDiff.Content)>>
                          ELSE <<>>)
                      \o (IF stat THEN <<Part("output", "git diff --stat")>>
                          ELSE <<>>)]

\* The configuration the handlers' diffs are taken under.
HandlerConfig == [MaxDiffSizeMB |-> 1, MaxFileCount |-> 1, MaxLineLength |-> 3]

\* What getGitDiffSafe returns for the whole output passed as one chunk
ProcessedDiff(cfg, output) ==
    TruncatedDiff(FlushLine(ProcessChunkOf(NewSafeDiffProcessor, cfg, output), cfg))

\* and for statistics over the file limit
RefusedDiff(cfg) ==
    LET stats == [failed |-> FALSE, FileCount |-> cfg.MaxFileCount + 1,
                  EstimatedSizeKB |-> 0]
    IN PreflightDiff(stats, checkDiffSize(stats, cfg))

\* The returns of getGitDiffSafe explored: an error; no diff; a diff passed
\* whole; one cut at the file limit; one over the size ceiling, of which
\* nothing is kept; one refused by the pre-flight check.
GitDiffResults ==
    {[failed |-> TRUE, diff |-> NoDiff]} \cup
    {[failed |-> FALSE, diff |-> d] :
        d \in {ProcessedDiff(HandlerConfig, <<>>),
               ProcessedDiff(HandlerConfig, <<"x", NL>>),
               ProcessedDiff(HandlerConfig, <<"d", NL, "d", NL>>),
               ProcessedDiff(HandlerConfig,
                             [i \in 1..(MaxBytes(HandlerConfig) + 1) |-> "x"]),
               RefusedDiff(HandlerConfig)}}

CommitInfoInputs ==
    [f : {"getCommitInfo"}, showFails : BOOLEAN,
     first : GitDiffResults, second : GitDiffResults]

UncommittedInputs ==
    [f : {"getUncommittedChanges"}, stagedOnly : BOOLEAN,
     status : {"failed", "empty", "changes"},
     first : GitDiffResults, second : GitDiffResults, stat : BOOLEAN]

\* Bounds: the longest line passed to truncateLine and the largest
\* MaxLineLength it is called with.
MaxLineLen == 5
MaxLineLimit == 4

\* truncateLine(line, maxLength) as a call: the string it returns, or the
\* panic of the slice expression.
TruncateLineCall(line, maxLength) ==
    IF TruncateLinePanics(line, maxLength)
    THEN [panicked |-> TRUE, line |-> <<>>]
    ELSE [panicked |-> FALSE, line |-> truncateLine(line, maxLength)]

\* lines hold no newline; MAX_LINE_LENGTH from 1 on
LineInputs ==
    [f : {"truncateLine"},
     line : UNION {[1..n -> Bytes \ {NL}] : n \in 0..MaxLineLen},
     maxLength : 1..MaxLineLimit]

FnInputs ==
    LineInputs \cup DelayInputs \cup StatusInputs \cup ErrorInputs \cup SplitInputs
    \cup LadderInputs \cup TokenInputs \cup ChunkInputs \cup OptimizedInputs
    \cup CommitInfoInputs \cup UncommittedInputs

FnInit ==
    /\ RegStart
    /\ RetryIdle
    /\ DiffIdle
    /\ fnInput \in FnInputs
    /\ fnOutput = 0
    /\ fnPc = "called"
    /\ AnalysisIdle

\* rc.CalculateDelay(attempt)
CallCalculateDelay ==
    /\ FnFrame
    /\ fnPc = "called"
    /\ fnInput.f = "CalculateDelay"
    /\ fnOutput' \in CalculateDelay(fnInput.rc, fnInput.attempt, fnInput.nano)
    /\ fnPc' = "returned"
    /\ UNCHANGED fnInput

\* IsRetryableHTTPStatus(statusCode)
CallIsRetryableHTTPStatus ==
    /\ FnFrame
    /\ fnPc = "called"
    /\ fnInput.f = "IsRetryableHTTPStatus"
    /\ fnOutput' = IsRetryableHTTPStatus(fnInput.statusCode)
    /\ fnPc' = "returned"
    /\ UNCHANGED fnInput

\* IsRetryableError(err)
CallIsRetryableError ==
    /\ FnFrame
    /\ fnPc = "called"
    /\ fnInput.f = "IsRetryableError"
    /\ fnOutput' = IsRetryableError(fnInput.err)
    /\ fnPc' = "returned"
    /\ UNCHANGED fnInput

\* w.splitContentIntoChunks(content, chunkSizeBytes)
CallSplitContentIntoChunks ==
    /\ FnFrame
    /\ fnPc = "called"
    /\ fnInput.f = "splitContentIntoChunks"
    /\ fnOutput' = splitContentIntoChunks(fnInput.content, fnInput.chunkSizeBytes)
    /\ fnPc' = "returned"
    /\ UNCHANGED fnInput

\* cfg.GetOptimalTokensForDiff(diffSize)
CallGetOptimalTokensForDiff ==
    /\ FnFrame
    /\ fnPc = "called"
    /\ fnInput.f = "GetOptimalTokensForDiff"
    /\ fnOutput' = GetOptimalTokensForDiff(fnInput.diffSize)
    /\ fnPc' = "returned"
    /\ UNCHANGED fnInput

\* cfg.GetProviderOptimizedConfig(provider, diffSize, task)
CallGetProviderOptimizedConfig ==
    /\ FnFrame
    /\ fnPc = "called"
    /\ fnInput.f = "GetProviderOptimizedConfig"
    /\ fnOutput' = GetProviderOptimizedConfig(fnInput.provider, fnInput.diffSize)
    /\ fnPc' = "returned"
    /\ UNCHANGED fnInput

\* cfg.ShouldChunkDiff(diffSizeBytes, fileCount)
CallShouldChunkDiff ==
    /\ FnFrame
    /\ fnPc = "called"
    /\ fnInput.f = "ShouldChunkDiff"
    /\ fnOutput' = ShouldChunkDiff(fnInput.cfg, fnInput.diffSizeBytes, fnInput.fileCount)
    /\ fnPc' = "returned"
    /\ UNCHANGED fnInput

\* truncateLine(line, p.memConfig.MaxLineLength)
CallTruncateLine ==
    /\ FnFrame
    /\ fnPc = "called"
    /\ fnInput.f = "truncateLine"
    /\ fnOutput' = TruncateLineCall(fnInput.line, fnInput.maxLength)
    /\ fnPc' = "returned"
    /\ UNCHANGED fnInput

\* getCommitInfo(ctx, repoPath, commitSHA)
CallGetCommitInfo ==
    /\ FnFrame
    /\ fnPc = "called"
    /\ fnInput.f = "getCommitInfo"
    /\ fnOutput' = getCommitInfo(fnInput.showFails, fnInput.first, fnInput.second)
    /\ fnPc' = "returned"
    /\ UNCHANGED fnInput

\* getUncommittedChanges(ctx, repoPath, stagedOnly)
CallGetUncommittedChanges ==
    /\ FnFrame
    /\ fnPc = "called"
    /\ fnInput.f = "getUncommittedChanges"
    /\ fnOutput' = getUncommittedChanges(fnInput.stagedOnly, fnInput.status,
                                         fnInput.first, fnInput.second,
                                         fnInput.stat)
    /\ fnPc' = "returned"
    /\ UNCHANGED fnInput

\* w.AnalyzeOptimized(ctx, prompt, contentSize, task)
CallAnalyzeOptimized ==
    /\ FnFrame
    /\ fnPc = "called"
    /\ fnInput.f = "AnalyzeOptimized"
    /\ fnOutput' = AnalyzeOptimized(fnInput.provider, fnInput.prompt,
                                    fnInput.contentSize, fnInput.cfg)
    /\ fnPc' = "returned"
    /\ UNCHANGED fnInput

FnNext ==
    \/ CallGetOptimalTokensForDiff
    \/ CallGetProviderOptimizedConfig
    \/ CallShouldChunkDiff
    \/ CallAnalyzeOptimized
    \/ CallTruncateLine
    \/ CallGetCommitInfo
    \/ CallGetUncommittedChanges
    \/ CallSplitContentIntoChunks
    \/ CallCalculateDelay
    \/ CallIsRetryableHTTPStatus
    \/ CallIsRetryableError

SpecFn == FnInit /\ [][FnNext]_vars

(***************************************************************************)
(* Chunked analysis: analyzeInChunks                                       *)
(***************************************************************************)
AnalysisFrame == UNCHANGED <<regVars, retryVars, diffVars, fnVars>>

\* analyzeInChunks is entered with a prompt and a chunk size and splits the
\* prompt.
AnalysisInit ==
    /\ RegStart
    /\ RetryIdle
    /\ DiffIdle
    /\ FnIdle
    /\ \E prompt \in Contents, chunkSize \in 1..MaxChunkSize :
          chunks = splitContentIntoChunks(prompt, chunkSize)
    /\ results = <<>>
    /\ dispatched = <<>>
    /\ apc = "loop"
    /\ analyzeErr = NoErr
    /\ analysis = NoAnalysis

\* One turn of "for i, chunk := range chunks": the request for the piece and
\* what follows from its outcome.
AnalyzeChunk ==
    /\ AnalysisFrame
    /\ apc = "loop"
    /\ Len(results) < Len(chunks)
    /\ LET i == Len(results) + 1
           chunkPrompt == ChunkPrompt(i, Len(chunks), chunks[i])
       IN /\ dispatched' = Append(dispatched, chunkPrompt)
          /\ \/ /\ results' = Append(results, PartResult(i, Response(chunkPrompt)))
                /\ analyzeErr' = NoErr
                /\ UNCHANGED <<apc, analysis>>
             \/ \E err \in AnalyzeErrors :
                   /\ analyzeErr' = err
                   /\ analysis' = ChunkFailureReturn(results, i, err)
                   /\ apc' = "done"
                   /\ UNCHANGED results
    /\ UNCHANGED chunks

\* After the loop: the summary request, and the return.
AnalyzeSummary ==
    /\ AnalysisFrame
    /\ apc = "loop"
    /\ Len(results) = Len(chunks)
    /\ LET summaryPrompt == SummaryPrompt(results)
       IN /\ dispatched' = Append(dispatched, summaryPrompt)
          /\ \/ /\ analyzeErr' = NoErr
                /\ analysis' = [text |-> Combined(results, Response(summaryPrompt)),
                                 err |-> NoErr]
             \/ \E err \in AnalyzeErrors :
                   /\ analyzeErr' = err
                   /\ analysis' = SummaryFailureReturn(results, err)
    /\ apc' = "done"
    /\ UNCHANGED <<chunks, results>>

AnalysisNext ==
    \/ AnalyzeChunk
    \/ AnalyzeSummary

SpecAnalysis == AnalysisInit /\ [][AnalysisNext]_vars

\* The parts together: a start state of any one of them, and the steps of all.
Init == RegInit \/ RetryInit \/ DiffInit \/ FnInit \/ AnalysisInit

Next == RegNext \/ RetryNext \/ DiffNext \/ FnNext \/ AnalysisNext

Spec == Init /\ [][Next]_vars

\* The input as the claims speak of it: the bytes of all chunks in order, its
\* lines, its file sections.
RECURSIVE Flatten(_)
Flatten(strs) ==
    IF strs = <<>> THEN <<>> ELSE Head(strs) \o Flatten(Tail(strs))

Stream == Flatten(fed)

\* the bytes of the first n chunks
Upto(n) == Flatten(SubSeq(fed, 1, n))

\* The lines of a byte string with a newline after each; the bytes after the
\* last newline are LastPartial.
RECURSIVE CompleteLines(_, _)
CompleteLines(str, cur) ==
    IF str = <<>> THEN <<>>
    ELSE IF Head(str) = NL
         THEN <<cur>> \o CompleteLines(Tail(str), <<>>)
         ELSE CompleteLines(Tail(str), Append(cur, Head(str)))

RECURSIVE LastPartial(_, _)
LastPartial(str, cur) ==
    IF str = <<>> THEN cur
    ELSE IF Head(str) = NL
         THEN LastPartial(Tail(str), <<>>)
         ELSE LastPartial(Tail(str), Append(cur, Head(str)))

\* all lines, the unterminated last one included
AllLines(str) ==
    CompleteLines(str, <<>>) \o
        (IF LastPartial(str, <<>>) = <<>> THEN <<>> ELSE <<LastPartial(str, <<>>)>>)

IsHeader(line) == Len(line) >= 1 /\ line[1] = "d"

\* file sections: the header lines a string holds
Sections(str) ==
    Cardinality({i \in 1..Len(CompleteLines(str, <<>>)) :
                    IsHeader(CompleteLines(str, <<>>)[i])})

SizeCeiling == MaxBytes(memConfig)

UnderAllCeilings ==
    /\ Len(Stream) < SizeCeiling
    /\ Cardinality({i \in 1..Len(AllLines(Stream)) : IsHeader(AllLines(Stream)[i])})
           < memConfig.MaxFileCount
    /\ \A i \in 1..Len(AllLines(Stream)) :
           Len(AllLines(Stream)[i]) < memConfig.MaxLineLength

\* a string with a newline added when it does not end in one
Terminated(str) ==
    IF str = <<>> \/ str[Len(str)] = NL THEN str ELSE Append(str, NL)

\* C7 as stated: a stream under all three ceilings comes back untruncated,
\* with an empty reason and Content equal to the input bytes.
C7_ContentEqualsInput ==
    (dpc = "done" /\ UnderAllCeilings)
    => /\ diff.IsTruncated = FALSE
       /\ diff.WarningReason = NoMsg
       /\ diff.Content = Stream

\* C7 as amended: a stream under all three ceilings, in any chunking, comes
\* back untruncated, with an empty reason and Content equal to the input
\* bytes followed by a newline when the input does not end in one.
C7_ContentEqualsTerminatedInput ==
    (dpc = "done" /\ UnderAllCeilings)
    => /\ diff.IsTruncated = FALSE
       /\ diff.WarningReason = NoMsg
       /\ diff.Content = Terminated(Stream)

C7_Witness ==
    /\ dpc = "done"
    /\ UnderAllCeilings
    /\ Len(fed) = 2
    /\ Stream = <<"d", NL, "x">>
    /\ diff.Content = <<"d", NL, "x", NL>>

\* the first chunk whose bytes take the running total over the size ceiling
\* (0: none)
CrossingChunk ==
    IF \E j \in 1..Len(fed) : Len(Upto(j)) > SizeCeiling
    THEN CHOOSE j \in 1..Len(fed) :
            /\ Len(Upto(j)) > SizeCeiling
            /\ \A k \in 1..(j - 1) : Len(Upto(k)) <= SizeCeiling
    ELSE 0

\* what GetResult returns when only the chunks before the crossing one are fed
BeforeCrossing ==
    TruncatedDiff(FlushLine(
        ProcessChunkOf(NewSafeDiffProcessor, memConfig, Upto(CrossingChunk - 1)),
        memConfig))

\* C8 as stated: when the bytes passed to ProcessChunk add up to more than
\* the size ceiling, the result is truncated, its reason is the size (MB)
\* reason, and Content holds nothing of the chunk that crosses the ceiling or
\* of a later one.
C8_SizeTruncation ==
    (dpc = "done" /\ Len(Stream) > SizeCeiling)
    => /\ diff.IsTruncated = TRUE
       /\ diff.WarningReason = SizeMsg(memConfig.MaxDiffSizeMB)
       /\ diff.Content = BeforeCrossing.Content

\* C8 as amended: the same, except that the reason is the files reason when
\* the file-count ceiling tripped in a chunk before the crossing one.
C8_SizeTruncationUnlessFilesFirst ==
    (dpc = "done" /\ Len(Stream) > SizeCeiling)
    => /\ diff.IsTruncated = TRUE
       /\ diff.WarningReason =
              IF Sections(Upto(CrossingChunk - 1)) > memConfig.MaxFileCount
              THEN FilesMsg(memConfig.MaxFileCount)
              ELSE SizeMsg(memConfig.MaxDiffSizeMB)
       /\ diff.Content = BeforeCrossing.Content

C8_Witness ==
    /\ dpc = "done"
    /\ Len(fed) = 3
    /\ CrossingChunk = 2
    /\ fed[1] = <<"x", NL, "x">>
    /\ diff.IsTruncated
    /\ diff.WarningReason = SizeMsg(memConfig.MaxDiffSizeMB)
    /\ diff.Content = <<"x", NL, "x", NL>>

HeaderLines(str) == Sections(str)

\* C9: when the input holds more file sections than MaxFileCount (and stays
\* within the size ceiling), Content holds exactly MaxFileCount header lines,
\* the result is truncated and its reason is the files reason.
C9_ExactlyMaxFileCountSections ==
    (dpc = "done" /\ Len(Stream) <= SizeCeiling
                  /\ Sections(Stream) > memConfig.MaxFileCount)
    => /\ HeaderLines(diff.Content) = memConfig.MaxFileCount
       /\ diff.IsTruncated = TRUE
       /\ diff.WarningReason = FilesMsg(memConfig.MaxFileCount)

\* the line the claim expects for an input line
Ellipsized(line, out, max) ==
    IF Len(line) <= max
    THEN out = line
    ELSE /\ Len(out) = max
         /\ SubSeq(out, max - 2, max) = <<".", ".", ".">>
         /\ SubSeq(out, 1, max - 3) = SubSeq(line, 1, max - 3)

\* what the rule of C10 asks of a result: every line handed back ends in a
\* newline and is the input line at the same position, unchanged when it is
\* at most MaxLineLength long and otherwise cut to exactly MaxLineLength
\* bytes the last three of which are "..."; the unterminated last line of
\* the input is treated the same.  (In a truncated result the last line may
\* be the part of a line that was read before the ceiling tripped.)
LinesEllipsized ==
    LET out == CompleteLines(diff.Content, <<>>)
        in == AllLines(Stream)
    IN /\ LastPartial(diff.Content, <<>>) = <<>>
       /\ Len(out) <= Len(in)
       /\ ~diff.IsTruncated => Len(out) = Len(in)
       /\ \A i \in 1..Len(out) :
             (~diff.IsTruncated \/ i < Len(out))
             => Ellipsized(in[i], out[i], memConfig.MaxLineLength)

\* C10: for every MaxLineLength, ProcessChunk and GetResult hand the lines
\* on (neither fails on a line), and every input line longer than
\* MaxLineLength comes back as exactly MaxLineLength bytes ending in "..."
\* and a newline, shorter lines unchanged, the trailing partial line too.
C10_LongLinesEllipsized ==
    /\ dpc # "panic"
    /\ dpc = "done" => LinesEllipsized

\* C10 where the ellipsis fits: the same with MaxLineLength >= 3.
C10_LongLinesEllipsizedFromThree ==
    memConfig.MaxLineLength >= 3
    => /\ dpc # "panic"
       /\ dpc = "done" => LinesEllipsized

C10_Witness ==
    /\ dpc = "done"
    /\ memConfig.MaxLineLength = 3
    /\ Stream = <<"x", "x", "x", "x", NL>>
    /\ diff.Content = <<".", ".", ".", NL>>

\* the lines of a string that begin a file section, the unterminated last
\* line included
FileSections(str) ==
    LET lines == AllLines(str)
    IN Cardinality({i \in 1..Len(lines) : IsHeader(lines[i])})

\* the flag, reason and counters of a result, file sections counted by count
FlagReasonCounters(count) ==
    /\ dpc = "done"
       => IF diff.IsTruncated
          THEN diff.WarningReason # NoMsg
          ELSE /\ diff.WarningReason = NoMsg
               /\ diff.TotalSizeKB = Len(Stream) \div BytesPerKB
               /\ diff.FileCount = count
    /\ dpc = "refused"
       => diff.IsTruncated /\ diff.WarningReason # NoMsg

\* C11: every TruncatedDiff returned by GetResult or by getGitDiffSafe has,
\* when IsTruncated is false, an empty reason and byte and file counters
\* equal to the totals of the input stream (the file counter equal to the
\* number of lines beginning a file section), and when IsTruncated is true a
\* non-empty reason.
C11_FlagReasonCounters == FlagReasonCounters(FileSections(Stream))

\* C11 with only the newline-terminated header lines counted.
C11_CountersOfTerminatedLines == FlagReasonCounters(Sections(Stream))

C11_TerminatedWitness ==
    /\ dpc = "done"
    /\ ~diff.IsTruncated
    /\ Stream = <<"d", NL, "x", NL>>
    /\ diff.FileCount = 1
    /\ diff.TotalSizeKB = 2

\* C12: the ceilings trip only when strictly exceeded: a stream whose byte
\* count is at most MaxDiffSizeMB*1024*1024 (exactly at it included) and
\* whose file-section count is at most MaxFileCount (exactly at it included)
\* comes back with IsTruncated = false and an empty reason.
C12_ExclusiveCeilings ==
    (/\ dpc = "done"
     /\ Len(Stream) <= SizeCeiling
     /\ Sections(Stream) <= memConfig.MaxFileCount)
    => /\ diff.IsTruncated = FALSE
       /\ diff.WarningReason = NoMsg

C12_Witness ==
    /\ dpc = "done"
    /\ Len(Stream) = SizeCeiling
    /\ Sections(Stream) = memConfig.MaxFileCount
    /\ Len(fed) = 2
    /\ diff.IsTruncated = FALSE
    /\ diff.FileCount = memConfig.MaxFileCount

\* base * multiplier^attempt
Backoff(rc, att) == rc.BaseDelay * Pow(rc.BackoffMultiple, att)

\* a delay d is x varied by at most 25% up or down (to the whole nanosecond)
\* and then clamped to max
JitteredAndClamped(d, x, max) ==
    \E v \in ((3 * x) \div 4)..((5 * x) \div 4) : d = ClampToMax(v, max)

\* C13: CalculateDelay(0) is BaseDelay; for every attempt, every jitter and
\* every RetryConfig with MaxDelay >= BaseDelay the delay returned is at most
\* MaxDelay; and for attempt >= 1 it is BaseDelay * BackoffMultiple^attempt
\* varied by at most 25% up or down and then clamped to MaxDelay.
C13_DelayWithinBounds ==
    (fnPc = "returned" /\ fnInput.f = "CalculateDelay")
    => /\ fnInput.attempt = 0 => fnOutput = fnInput.rc.BaseDelay
       /\ fnOutput <= fnInput.rc.MaxDelay
       /\ fnInput.attempt >= 1
          => JitteredAndClamped(fnOutput, Backoff(fnInput.rc, fnInput.attempt),
                                fnInput.rc.MaxDelay)

\* C13 for the delays that an int64 holds before the clamp.
C13_DelayWithinBoundsNoOverflow ==
    (/\ fnPc = "returned" /\ fnInput.f = "CalculateDelay"
     /\ (5 * Backoff(fnInput.rc, fnInput.attempt)) \div 4 <= MaxDuration)
    => /\ fnInput.attempt = 0 => fnOutput = fnInput.rc.BaseDelay
       /\ fnOutput <= fnInput.rc.MaxDelay
       /\ fnInput.attempt >= 1
          => JitteredAndClamped(fnOutput, Backoff(fnInput.rc, fnInput.attempt),
                                fnInput.rc.MaxDelay)

C13_NoOverflowWitness ==
    /\ fnPc = "returned"
    /\ fnInput.f = "CalculateDelay"
    /\ fnInput.attempt = 2
    /\ fnInput.rc = [BaseDelay |-> 5, MaxDelay |-> 40, BackoffMultiple |-> 3]
    /\ fnOutput = 40

\* C14: IsRetryableHTTPStatus(s) is true exactly when s is one of 429, 500,
\* 502, 503, 504, and false for every other status code.
C14_RetryableStatusesExactly ==
    (fnPc = "returned" /\ fnInput.f = "IsRetryableHTTPStatus")
    => (fnOutput = TRUE <=> fnInput.statusCode \in {429, 500, 502, 503, 504})

C14_Witness ==
    /\ fnPc = "returned"
    /\ fnInput.f = "IsRetryableHTTPStatus"
    /\ fnInput.statusCode = 501
    /\ fnOutput = FALSE

\* an error that is, or wraps, the context's cancellation or deadline error
IsContextError(err) ==
    \/ err.kind \in {"context.Canceled", "context.DeadlineExceeded"}
    \/ err.wraps \in {"context.Canceled", "context.DeadlineExceeded"}

\* what C15 asks of IsRetryableError for the errors in ctxErrors
RetryableErrorClasses(ctxErrors) ==
    (fnPc = "returned" /\ fnInput.f = "IsRetryableError")
    => IF fnInput.err = NoErr THEN fnOutput = FALSE
       ELSE IF ctxErrors THEN fnOutput = FALSE
       ELSE IF fnInput.err.net THEN fnOutput = TRUE
       ELSE fnOutput = FALSE

\* C15: IsRetryableError never answers true for a context cancellation or
\* deadline-exceeded error, answers true for transport/network errors, and
\* answers false for nil and for any other error.
C15_ErrorClasses == RetryableErrorClasses(IsContextError(fnInput.err))

\* C15 with only the two sentinel values themselves taken as context errors.
C15_ErrorClassesOfSentinels ==
    RetryableErrorClasses(fnInput.err \in {Canceled, DeadlineExceeded})

C15_SentinelWitness ==
    /\ fnPc = "returned"
    /\ fnInput.f = "IsRetryableError"
    /\ fnInput.err = DeadlineExceeded
    /\ fnOutput = FALSE

\* C16: for every content and every chunk size >= 1 the pieces returned by
\* splitContentIntoChunks, concatenated in order, are the content, and no
\* piece is longer than the chunk size.
C16_SplitRoundTrip ==
    (fnPc = "returned" /\ fnInput.f = "splitContentIntoChunks")
    => /\ Flatten(fnOutput) = fnInput.content
       /\ \A k \in 1..Len(fnOutput) : Len(fnOutput[k]) <= fnInput.chunkSizeBytes

C16_Witness ==
    /\ fnPc = "returned"
    /\ fnInput.f = "splitContentIntoChunks"
    /\ fnInput.chunkSizeBytes = 5
    /\ fnInput.content = <<"x", "x", "x", NL, "x", "x">>
    /\ fnOutput = <<(<<"x", "x", "x", NL>>), (<<"x", "x">>)>>

\* the request at position k is the one for piece k of n
IsPartRequest(req, k) ==
    /\ req.kind = "Analysis part %d of %d"
    /\ req.part = k
    /\ req.of = Len(chunks)
    /\ req.body = <<chunks[k]>>

\* the request is the summary request over the results
IsSummaryRequest(req) ==
    /\ req.kind = "Provide a comprehensive summary"
    /\ req.body = results

\* the per-piece results, in input order, each the answer to its own request
ResultsInOrder ==
    /\ Len(results) <= Len(chunks)
    /\ \A k \in 1..Len(results) :
          results[k].part = k /\ results[k].result = Response(dispatched[k])

\* C17: in a chunked analysis of n pieces the pieces are requested one at a
\* time in input order, piece i marked "part i of n", their results are
\* assembled in the same order, and when every request has succeeded there
\* have been n+1 requests, the last of them the one summary request, made
\* after the last piece.
C17_PiecesInOrderThenSummary ==
    /\ ResultsInOrder
    /\ Len(dispatched) <= Len(results) + 1
    /\ \A k \in 1..Len(dispatched) :
          IF k <= Len(chunks)
          THEN IsPartRequest(dispatched[k], k)
          ELSE /\ k = Len(chunks) + 1
               /\ Len(results) = Len(chunks)
               /\ IsSummaryRequest(dispatched[k])
    /\ (apc = "done" /\ analyzeErr = NoErr)
       => /\ Len(dispatched) = Len(chunks) + 1
          /\ IsSummaryRequest(dispatched[Len(dispatched)])
          /\ analysis.err = NoErr
          /\ analysis.text.parts = results
          /\ analysis.text.summary = Response(dispatched[Len(dispatched)])

C17_Witness ==
    /\ apc = "done"
    /\ analyzeErr = NoErr
    /\ Len(chunks) = 3
    /\ Len(dispatched) = 4
    /\ dispatched[2].part = 2
    /\ dispatched[4].body = results

\* a request for a piece has failed
PieceFailed ==
    /\ analyzeErr # NoErr
    /\ Len(dispatched) <= Len(chunks)

\* C18: when the request for a piece fails, analyzeInChunks returns an error
\* and an empty result (the earlier results are not returned), no later
\* piece is requested and there is no summary request.
C18_PieceFailureAborts ==
    PieceFailed
    => /\ apc = "done"
       /\ analysis.err # NoErr
       /\ analysis.err.chunk = Len(dispatched)
       /\ analysis.text = EmptyText
       /\ Len(dispatched) = Len(results) + 1
       /\ \A k \in 1..Len(dispatched) : IsPartRequest(dispatched[k], k)

C18_Witness ==
    /\ PieceFailed
    /\ Len(chunks) = 3
    /\ Len(results) = 1
    /\ Len(dispatched) = 2
    /\ analysis.text = EmptyText
    /\ analysis.err = ChunkFailed(2, PlainError)

\* every piece has succeeded and the summary request has failed
SummaryFailed ==
    /\ analyzeErr # NoErr
    /\ Len(dispatched) = Len(chunks) + 1

\* C19: when every piece succeeds and the summary request fails,
\* analyzeInChunks returns the per-piece results in order, without a summary,
\* and a nil error.
C19_SummaryFailureDegrades ==
    SummaryFailed
    => /\ apc = "done"
       /\ analysis.err = NoErr
       /\ analysis.text = Combined(results, NoSummary)
       /\ Len(results) = Len(chunks)
       /\ ResultsInOrder

C19_Witness ==
    /\ SummaryFailed
    /\ Len(chunks) = 2
    /\ analysis.err = NoErr
    /\ Len(analysis.text.parts) = 2
    /\ analysis.text.parts[2].part = 2
    /\ analysis.text.summary = NoSummary

\* the number kept for key k by a counter per key
CountOf(m, k) == IF k \in DOMAIN m THEN m[k] ELSE 0

\* C20: when construction of a provider fails, the call returns the error
\* (no provider is handed back for the key), neither cache map gets the key,
\* and every call that returned an error for the key had invoked
\* llm.NewProvider itself: a later call with the key constructs again.
C20_FailureNotCached ==
    \A k \in failed :
        /\ k \notin DOMAIN llmProviders
        /\ k \notin DOMAIN optimizedLLMProviders
        /\ \A r \in returned : r.key # k
        /\ CountOf(errored, k) = CountOf(attempted, k)
        /\ CountOf(constructed, k) = 0

C20_Witness ==
    /\ \A c \in Callers : pc[c] = "idle"
    /\ <<"mistral">> \in failed
    /\ CountOf(attempted, <<"mistral">>) = 2
    /\ CountOf(errored, <<"mistral">>) = 2
    /\ <<"mistral">> \notin DOMAIN llmProviders

\* C21: every call of RetryableHTTPRequest that has returned has returned
\* either a response and a nil error or no response and an error, never both
\* and never neither, whatever the attempts' outcomes and MaxRetries >= 0.
C21_ExactlyOneOutcome ==
    (fn = "RetryableHTTPRequest" /\ rpc = "done")
    => /\ (result.resp # NoResp) # (result.err # NoErr)
       /\ config.MaxRetries >= 0

\* the last attempt got a response together with an error from client.Do
C21_Witness ==
    /\ fn = "RetryableHTTPRequest"
    /\ rpc = "done"
    /\ Len(sent) = config.MaxRetries + 1
    /\ sent[Len(sent)].resp # NoResp
    /\ sent[Len(sent)].err # NoErr
    /\ result.resp = NoResp
    /\ result.err = FailedAfter(Len(sent), sent[Len(sent)].err)

\* C22: ShouldChunkDiff signals chunking exactly when the size is above the
\* configured maximum diff size or the file count above the configured
\* maximum file count, and returns the base chunk size of ChunkSizeMB MiB,
\* halved only when the file count is above the high-file-count threshold:
\* 15MB and 50 files with a 10MB ceiling chunk with the full base size, 2MB
\* and 150 files with a 100-file ceiling chunk with half of it.
C22_ChunkDecision ==
    (fnPc = "returned" /\ fnInput.f = "ShouldChunkDiff") =>
        LET cfg == fnInput.cfg
            size == fnInput.diffSizeBytes
            files == fnInput.fileCount
            base == MB(cfg.ChunkSizeMB)
        IN /\ fnOutput.shouldChunk
                <=> (size > MB(cfg.MaxDiffSizeMB) \/ files > cfg.MaxFileCount)
           /\ files > HighFileCount => 2 * fnOutput.chunkSize = base
           /\ files <= HighFileCount => fnOutput.chunkSize = base
           /\ (size = MB(15) /\ files = 50 /\ cfg.MaxDiffSizeMB = 10)
                => fnOutput = [shouldChunk |-> TRUE, chunkSize |-> base]
           /\ (size = MB(2) /\ files = 150 /\ cfg.MaxFileCount = 100)
                => fnOutput = [shouldChunk |-> TRUE, chunkSize |-> base \div 2]

\* content exactly at both ceilings is not chunked
C22_Witness ==
    /\ fnPc = "returned"
    /\ fnInput.f = "ShouldChunkDiff"
    /\ fnInput.diffSizeBytes = MB(fnInput.cfg.MaxDiffSizeMB)
    /\ fnInput.fileCount = fnInput.cfg.MaxFileCount
    /\ ~fnOutput.shouldChunk

\* The budgets the ladder allows for a size; a size on the edge between two
\* brackets named with the same number may have either bracket's budget.
LadderBudgets(size) ==
    (IF size < 5 * 1024 THEN {4096} ELSE {})
    \cup (IF 5 * 1024 <= size /\ size <= 20 * 1024 THEN {6144} ELSE {})
    \cup (IF 20 * 1024 <= size /\ size <= 50 * 1024 THEN {8192} ELSE {})
    \cup (IF 50 * 1024 <= size /\ size <= 150 * 1024 THEN {12288} ELSE {})
    \cup (IF 150 * 1024 <= size /\ size <= 500 * 1024 THEN {16384} ELSE {})
    \cup (IF size > 500 * 1024 THEN {32768} ELSE {})

MinOf(a, b) == IF a < b THEN a ELSE b

\* C23: the token budget of a size is the ladder's, 4096 below 5KB, 6144 for
\* 5-20KB, 8192 for 20-50KB, 12288 for 50-150KB, 16384 for 150-500KB and
\* 32768 above 500KB, and no smaller size has a larger budget;
\* GetProviderOptimizedConfig returns the smaller of that budget and 8192 for
\* google and ollama and that budget itself for openai.
C23_TokenLadderAndCaps ==
    /\ (fnPc = "returned" /\ fnInput.f = "GetOptimalTokensForDiff") =>
          /\ fnOutput \in LadderBudgets(fnInput.diffSize)
          /\ \A smaller \in ContentSizes :
                smaller <= fnInput.diffSize
                => GetOptimalTokensForDiff(smaller) <= fnOutput
    /\ (fnPc = "returned" /\ fnInput.f = "GetProviderOptimizedConfig") =>
          /\ fnInput.provider \in {"google", "ollama"}
                => fnOutput.maxTokens
                     \in {MinOf(b, 8192) : b \in LadderBudgets(fnInput.diffSize)}
          /\ fnInput.provider = "openai"
                => fnOutput.maxTokens \in LadderBudgets(fnInput.diffSize)

\* a capped provider with content of the 50-150KB bracket
C23_Witness ==
    /\ fnPc = "returned"
    /\ fnInput.f = "GetProviderOptimizedConfig"
    /\ fnInput.provider = "google"
    /\ fnInput.diffSize = 100 * 1024
    /\ fnOutput.maxTokens = 8192

\* The example: content of 1MB touching 50 files, a size ceiling of 10MB and
\* a file ceiling of 1000.
C24_Scenario ==
    /\ fnPc = "returned"
    /\ fnInput.f = "AnalyzeOptimized"
    /\ fnInput.contentSize = MB(1)
    /\ estimateFileCount(fnInput.prompt) = 50
    /\ fnInput.cfg.MaxDiffSizeMB = 10
    /\ fnInput.cfg.MaxFileCount = 1000

Reading(c) == pc[c] \in {"gp_check", "op_check"}
Writing(c) == pc[c] \in {"gp_store", "op_store"}

\* C25: in every interleaving of getOrCreateProvider and
\* getOrCreateOptimizedProvider calls, a caller reads the provider maps only
\* while it holds the read or the write lock and writes them only while it
\* holds the write lock, and while one caller writes no other caller reads
\* or writes.
C25_AccessUnderLock ==
    \A c \in Callers :
        /\ Reading(c) => (c \in llmProvidersMux.readers \/ llmProvidersMux.writer = c)
        /\ Writing(c) =>
              /\ llmProvidersMux.writer = c
              /\ \A d \in Callers \ {c} : ~Reading(d) /\ ~Writing(d)

\* one caller reads while another, with a provider to store, waits for the
\* write lock
C25_Witness ==
    \E c, d \in Callers :
        /\ c # d
        /\ Reading(c)
        /\ c \in llmProvidersMux.readers
        /\ pc[d] = "gp_lock"
        /\ ~CanLock

OperationSucceeded(o) == o.err = NoErr
OperationFailedRetryably(o) == o.err # NoErr /\ IsRetryableError(o.err)
OperationFailedFinally(o) == o.err # NoErr /\ ~IsRetryableError(o.err)

\* C26: RetryableOperation invokes the operation once and returns its error
\* unchanged when that error is not retryable; when the operation fails k
\* times retryably, k <= MaxRetries, and then succeeds, the call has returned
\* the operation's result and a nil error after k+1 invocations; when all
\* MaxRetries+1 invocations fail retryably the call has returned an error
\* stating MaxRetries+1 attempts.
C26_OperationOutcomes ==
    fn = "RetryableOperation" =>
        /\ (Len(sent) >= 1 /\ OperationFailedFinally(sent[1]))
              => /\ Len(sent) = 1
                 /\ rpc = "done"
                 /\ result = [resp |-> NoResp, err |-> sent[1].err]
        /\ \A i \in 1..Len(sent) :
              ( /\ \A j \in 1..(i - 1) : OperationFailedRetryably(sent[j])
                /\ OperationSucceeded(sent[i]) )
              => /\ i = Len(sent)
                 /\ i - 1 <= config.MaxRetries
                 /\ rpc = "done"
                 /\ result = [resp |-> sent[i].resp, err |-> NoErr]
        /\ ( /\ Len(sent) = config.MaxRetries + 1
              /\ \A j \in 1..Len(sent) : OperationFailedRetryably(sent[j]) )
              => /\ rpc = "done"
                 /\ result.resp = NoResp
                 /\ result.err.kind = "operation failed after"
                 /\ result.err.attempts = config.MaxRetries + 1
                 /\ result.err.cause = sent[Len(sent)].err

\* two retryable failures, then success on the third invocation
C26_Witness ==
    /\ fn = "RetryableOperation"
    /\ rpc = "done"
    /\ config.MaxRetries = 2
    /\ Len(sent) = 3
    /\ sent[1].err = DNSError /\ sent[2].err = DNSError
    /\ result = [resp |-> 1, err |-> NoErr]

\* C27: after any sequence of ProcessChunk calls, the Content that GetResult
\* returns is never longer in bytes than the size ceiling
\* MaxDiffSizeMB*1024*1024.
C27_ContentWithinSizeCeiling ==
    dpc = "done" => Len(diff.Content) <= SizeCeiling

\* the processor after the first n chunks
RECURSIVE Replay(_)
Replay(n) ==
    IF n = 0 THEN NewSafeDiffProcessor
    ELSE ProcessChunkOf(Replay(n - 1), memConfig, fed[n])

\* C28: a ProcessChunk call on a processor whose truncation flag is set
\* returns normally and leaves the output buffer, the pending line buffer,
\* the byte and file counters, the flag and the reason as they were.
C28_NoOpOnceTruncated ==
    [][ (dpc = "feeding" /\ processor.isTruncated /\ fed' # fed)
        => /\ dpc' = "feeding"
           /\ processor'.buffer = processor.buffer
           /\ processor'.lineBuffer = processor.lineBuffer
           /\ processor'.bytesRead = processor.bytesRead
           /\ processor'.filesRead = processor.filesRead
           /\ processor'.isTruncated
           /\ processor'.truncateMsg = processor.truncateMsg ]_vars

\* a chunk was passed after the file ceiling tripped with a header pending
C28_Witness ==
    /\ dpc = "feeding"
    /\ Len(fed) >= 2
    /\ Replay(Len(fed) - 1).isTruncated
    /\ processor.isTruncated
    /\ processor.lineBuffer # <<>>
    /\ processor.bytesRead < Len(Stream)

\* C29: the truncation reason is recorded at most once per stream and is one
\* of the two reasons: a reason once recorded is never replaced, and a
\* ProcessChunk call that takes the stream over both the size ceiling and the
\* file-count ceiling records the size reason.
C29_OneReasonSizeFirst ==
    [][ /\ processor.truncateMsg # NoMsg
          => processor'.truncateMsg = processor.truncateMsg
        /\ processor'.truncateMsg \in
              {NoMsg, SizeMsg(memConfig.MaxDiffSizeMB), FilesMsg(memConfig.MaxFileCount)}
        /\ processor'.isTruncated <=> processor'.truncateMsg # NoMsg
        /\ ( /\ dpc = "feeding"
              /\ fed' # fed
              /\ ~processor.isTruncated
              /\ Len(Stream') > SizeCeiling
              /\ Sections(Stream') > memConfig.MaxFileCount )
          => processor'.truncateMsg = SizeMsg(memConfig.MaxDiffSizeMB) ]_vars

\* the last chunk took the stream over both ceilings at once, and the part
\* of it under the size ceiling already holds the header over the file ceiling
C29_Witness ==
    /\ dpc = "feeding"
    /\ Len(fed) = 2
    /\ ~Replay(1).isTruncated
    /\ Len(Stream) > SizeCeiling
    /\ Sections(SubSeq(Stream, 1, SizeCeiling)) > memConfig.MaxFileCount
    /\ Sections(Upto(1)) <= memConfig.MaxFileCount
    /\ processor.truncateMsg = SizeMsg(memConfig.MaxDiffSizeMB)

\* the request of attempt i failed because the caller cancelled the context
CancelledInFlight(i) == sent[i].err = UrlError(Canceled)

\* C30: when the caller's cancellation makes the request of an attempt of
\* RetryableHTTPRequest fail, the final attempt included, that attempt is the
\* last one and the call returns the cancellation error, not a "failed after
\* N attempts" error.
C30_CancellationNotExhaustion ==
    fn = "RetryableHTTPRequest" =>
        \A i \in 1..Len(sent) :
            CancelledInFlight(i)
            => /\ i = Len(sent)
               /\ rpc = "done"
                    => /\ result.resp = NoResp
                       /\ result.err \in {Canceled, UrlError(Canceled)}

\* C31: when the caller's cancellation makes a request of a chunked analysis
\* fail, the request for a piece or the summary request, the analysis
\* returns an error: a cancelled analysis is never returned as a result.
C31_CancellationIsAnError ==
    (apc = "done" /\ analyzeErr = Canceled) => analysis.err # NoErr

\* checkDiffSize found the estimate above the size ceiling or the changed
\* files above MaxFileCount
PreflightExceeded ==
    checkErr # NoMsg /\ checkErr # StatsFailedMsg

\* C32: when the pre-flight check finds the estimated size above the ceiling
\* or the file count above MaxFileCount, getGitDiffSafe returns a result with
\* IsTruncated set, empty Content and a reason, and no byte reaches the
\* processor; when the check passes, the processor is used.
C32_PreflightRefusal ==
    /\ PreflightExceeded =>
          /\ dpc = "refused"
          /\ diff.IsTruncated
          /\ diff.Content = <<>>
          /\ diff.WarningReason # NoMsg
          /\ fed = <<>>
          /\ processor = NewSafeDiffProcessor
    /\ (checkErr = NoMsg /\ dpc # "start") =>
          dpc \in {"feeding", "done", "panic", "failed"}

\* The processor after the whole stream passed as the one chunk of a single
\* ProcessChunk call, and after GetResult's flush.
InOneChunk ==
    FlushLine(ProcessChunkOf(NewSafeDiffProcessor, memConfig, Stream), memConfig)

\* C33: for a stream no longer than the size ceiling, the Content, the
\* IsTruncated flag, the FileCount and the reason GetResult returns do not
\* depend on how the stream was split into ProcessChunk calls: they are those
\* of the stream passed in one call.
C33_ChunkingDeterminism ==
    (dpc = "done" /\ Len(Stream) <= SizeCeiling) =>
        /\ ~InOneChunk.panicked
        /\ diff.Content = TruncatedDiff(InOneChunk).Content
        /\ diff.IsTruncated = TruncatedDiff(InOneChunk).IsTruncated
        /\ diff.FileCount = TruncatedDiff(InOneChunk).FileCount
        /\ diff.WarningReason = TruncatedDiff(InOneChunk).WarningReason

\* A stream under the ceiling passed in three chunks, the first ending inside
\* a header line, and truncated at the file limit.
C33_Witness ==
    /\ dpc = "done"
    /\ Len(Stream) <= SizeCeiling
    /\ Len(fed) = 3
    /\ fed[1] = <<"d">>
    /\ diff.IsTruncated
    /\ diff.FileCount > memConfig.MaxFileCount
    /\ diff.Content # <<>>

\* C34: when the diff-statistics command fails, getGitDiffSafe returns an
\* error to its caller: it neither panics nor returns a truncated diff.
C34_StatsFailureIsAnError ==
    checkErr = StatsFailedMsg => dpc = "failed"

\* The two maps hold the same keys and each wrapper embeds the base provider
\* cached under its key.
MapsAgree ==
    /\ DOMAIN llmProviders = DOMAIN optimizedLLMProviders
    /\ \A k \in DOMAIN llmProviders :
         optimizedLLMProviders[k] = NewOptimizedProvider(llmProviders[k])

\* C35: in every reachable state of the registry llmProviders and
\* optimizedLLMProviders hold the same keys and the wrapper cached under a
\* key wraps the base provider cached under it, for every interleaving of
\* the two functions; and no step removes a key from either map.
C35_MapsAgreeKeysKept ==
    /\ []MapsAgree
    /\ [][/\ DOMAIN llmProviders \subseteq DOMAIN llmProviders'
          /\ DOMAIN optimizedLLMProviders \subseteq DOMAIN optimizedLLMProviders']_vars

\* Two calls, one of them getOrCreateOptimizedProvider, both constructed a
\* provider for the same new key, the second store replaced the first, and
\* both have returned.
C35_Witness ==
    /\ \A c \in Callers : pc[c] = "idle"
    /\ \E c \in Callers : call[c].fn = "getOrCreateOptimizedProvider"
    /\ \E k \in DOMAIN constructed :
         /\ constructed[k] = 2
         /\ k \in DOMAIN optimizedLLMProviders
         /\ optimizedLLMProviders[k].Provider = llmProviders[k]

\* Caller c is about to call RLock or Lock.
Acquiring(c) == pc[c] \in {"gp_rlock", "op_rlock", "gp_lock", "op_lock"}

\* Caller c holds the registry lock, shared or exclusive.
Holding(c) == c \in llmProvidersMux.readers \/ llmProvidersMux.writer = c

\* C36: the registry is deadlock-free.  No caller asks for the registry lock
\* while it holds it, and under fair scheduling every call of
\* getOrCreateProvider or getOrCreateOptimizedProvider returns: each caller
\* is outside the two functions again and again.
C36_NoReentryEveryCallReturns ==
    /\ [](\A c \in Callers : Acquiring(c) => ~Holding(c))
    /\ \A c \in Callers : []<>(pc[c] = "idle")

\* A getOrCreateOptimizedProvider call back from getOrCreateProvider waits
\* for the write lock that another caller holds.
C36_Witness ==
    \E c, d \in Callers :
        /\ pc[c] = "op_lock"
        /\ llmProvidersMux.writer = d
        /\ d # c

\* The response of attempt i is the one RetryableHTTPRequest returned.
HandedBack(i) ==
    /\ i = Len(sent)
    /\ rpc = "done"
    /\ result.err = NoErr
    /\ result.resp = sent[i].resp

\* net/http: a response that comes with an error (CheckRedirect failed) has
\* its body closed by the client already.
ArrivesClosed(i) == sent[i].resp # NoResp /\ sent[i].err # NoErr

\* C37: in RetryableHTTPRequest the body of every response that is not
\* handed back to the caller, each response with a retryable status, has
\* been closed exactly once when the attempt ends in a wait or in the error
\* return, and the dispatcher never closes the response it returns.
C37_BodiesClosedOnce ==
    fn = "RetryableHTTPRequest" =>
        /\ Len(closes) = Len(sent)
        /\ \A i \in 1..Len(sent) :
             /\ HandedBack(i) => closes[i] = 0
             /\ (sent[i].resp # NoResp /\ ~HandedBack(i)) =>
                    closes[i] + (IF ArrivesClosed(i) THEN 1 ELSE 0) = 1
             /\ (sent[i].err = NoErr /\ IsRetryableHTTPStatus(sent[i].resp)) =>
                    closes[i] = 1

\* Two responses with a retryable status, each closed, then the response that
\* is returned, left open for the caller.
C37_Witness ==
    /\ fn = "RetryableHTTPRequest"
    /\ rpc = "done"
    /\ Len(sent) = 3
    /\ closes = <<1, 1, 0>>
    /\ HandedBack(3)

\* C38: for a non-empty content and a chunk size of at least 1,
\* splitContentIntoChunks returns; every piece is non-empty; every piece but
\* the last is longer than half the chunk size, and is shorter than the chunk
\* size only when it ends with a newline; and there are at most
\* 2*len(content)/chunkSize + 1 pieces.
C38_PiecesLongEnough ==
    (fnInput.f = "splitContentIntoChunks" /\ fnPc = "returned"
        /\ fnInput.content # <<>>) =>
        /\ Len(fnOutput) >= 1
        /\ \A k \in 1..Len(fnOutput) :
             /\ fnOutput[k] # <<>>
             /\ k < Len(fnOutput) =>
                  /\ 2 * Len(fnOutput[k]) > fnInput.chunkSizeBytes
                  /\ Len(fnOutput[k]) <= fnInput.chunkSizeBytes
                  /\ Len(fnOutput[k]) < fnInput.chunkSizeBytes =>
                         fnOutput[k][Len(fnOutput[k])] = NL
        /\ Len(fnOutput) <=
               (2 * Len(fnInput.content)) \div fnInput.chunkSizeBytes + 1

\* A split whose first piece was cut short at a newline.
C38_Witness ==
    /\ fnInput.f = "splitContentIntoChunks"
    /\ fnPc = "returned"
    /\ Len(fnOutput) >= 2
    /\ Len(fnOutput[1]) < fnInput.chunkSizeBytes

\* The diff results a call of getCommitInfo or getUncommittedChanges obtained:
\* that of its first getGitDiffSafe call, and that of the second when the
\* second was made and returned one.
ObtainedDiffs ==
    IF fnInput.f = "getCommitInfo"
    THEN (IF fnInput.first.failed THEN {} ELSE {fnInput.first.diff})
         \cup (IF fnInput.first.failed /\ ~fnInput.second.failed
               THEN {fnInput.second.diff} ELSE {})
    ELSE (IF fnInput.first.failed THEN {} ELSE {fnInput.first.diff})
         \cup (IF /\ ~fnInput.first.failed
                  /\ fnInput.first.diff.Content = <<>>
                  /\ ~fnInput.stagedOnly
                  /\ ~fnInput.second.failed
               THEN {fnInput.second.diff} ELSE {})

\* The text holds the warning with the reason of d and d's counters.
Warned(text, d) ==
    /\ \E k \in 1..Len(text) :
         text[k].part = "warning" /\ text[k].val = d.WarningReason
    /\ \E k \in 1..Len(text) :
         text[k].part = "counters" /\ text[k].val = <<d.TotalSizeKB, d.FileCount>>

\* The handler got as far as getGitDiffSafe and returned a text.
AssembledText ==
    /\ fnInput.f \in {"getCommitInfo", "getUncommittedChanges"}
    /\ fnPc = "returned"
    /\ fnOutput.err = ""
    /\ fnInput.f = "getCommitInfo" => ~fnInput.showFails
    /\ fnInput.f = "getUncommittedChanges" => fnInput.status = "changes"

\* C39: whenever a diff result obtained by getCommitInfo or by
\* getUncommittedChanges has IsTruncated set, by the pre-flight check or by
\* the processor, the text assembled for the caller holds the truncation
\* warning with its reason and the size and file counters.
C39_TruncationWarned ==
    AssembledText =>
        \A d \in ObtainedDiffs : d.IsTruncated => Warned(fnOutput.text, d)

\* C40: for every line and every MaxLineLength of at least 1, the values
\* below the length of the ellipsis included, truncateLine returns, and the
\* string it returns is at most MaxLineLength long.
C40_TruncateLineTotal ==
    (fnInput.f = "truncateLine" /\ fnPc = "returned") =>
        /\ ~fnOutput.panicked
        /\ Len(fnOutput.line) <= fnInput.maxLength

====
